---- MODULE Spec2Model ----
(***************************************************************************)
(* A model of the analytical query engine of the procurement agent:       *)
(* the dataset registry (src/data/models.py), the caching DataLoader       *)
(* (src/data/loader.py) and the historical and forecast query functions    *)
(* (src/tools/historical.py, src/tools/forecast.py) together with the      *)
(* entry points of the driver, comparative, recommendation and negotiation *)
(* layers.                                                                 *)
(*                                                                         *)
(* Modelling conventions                                                   *)
(*  - A calendar date "YYYY-MM-DD" is an integer.  The code compares dates *)
(*    as strings; on zero-padded ISO dates that order is the order of the  *)
(*    integers used here.                                                  *)
(*  - A Python object that is cached is a heap cell: the caches hold       *)
(*    references, heap maps a reference to the object's content, so that   *)
(*    identity (is) and value equality (==) are different things.          *)
(*  - A call ends as Return(v) or Raise(exception type).  Subscripting     *)
(*    None raises TypeError, reading an attribute of None raises           *)
(*    AttributeError, a missing dict key raises KeyError, as in Python.    *)
(***************************************************************************)
EXTENDS Integers, Sequences, FiniteSets, TLC

VARIABLES
    files,      \* the data directory: folder -> the three files of a dataset
    loader,     \* a long-lived DataLoader: its _cache, _drivers_cache, heap
    call,       \* the last call made: operation and arguments
    ret,        \* how the last call ended: Return(value) or Raise(type)
    io,         \* the file-system operations the last call performed
    qloader     \* the DataLoader a query function created, as it returned

vars == <<files, loader, call, ret, io, qloader>>

---------------------------------------------------------------------------
(* Python values and outcomes *)

None == [t |-> "None"]

Return(v) == [kind |-> "return", val |-> v]

Raise(e) == [kind |-> "raise", exc |-> e]

EmptyDict == [k \in {} |-> None]

Put(d, k, v) == [x \in DOMAIN d \cup {k} |-> IF x = k THEN v ELSE d[x]]

IsNone(v) == v = None

\* d[k] on a dict payload: KeyError when the key is absent
GetItem(d, k) == IF k \in DOMAIN d THEN Return(d[k]) ELSE Raise("KeyError")

\* seq[i] with Python's 0-based index, negative indices counting from the end
PyIndex(seq, i) ==
    IF i >= 0 /\ i < Len(seq) THEN Return(seq[i + 1])
    ELSE IF i < 0 /\ -i <= Len(seq) THEN Return(seq[Len(seq) + i + 1])
    ELSE Raise("IndexError")

SetMin(S) == CHOOSE x \in S : \A y \in S : x <= y

SetMax(S) == CHOOSE x \in S : \A y \in S : x >= y

\* sorted(S) of a set of dates
RECURSIVE Sorted(_)
Sorted(S) == IF S = {} THEN <<>> ELSE <<SetMin(S)>> \o Sorted(S \ {SetMin(S)})

Range(seq) == {seq[i] : i \in 1..Len(seq)}

\* list.index(x): the first position (0-based), ValueError when absent
ListIndex(seq, x) ==
    IF \E i \in 1..Len(seq) : seq[i] = x
    THEN Return(SetMin({i \in 1..Len(seq) : seq[i] = x}) - 1)
    ELSE Raise("ValueError")

RECURSIVE SelectRows(_, _, _)
\* df[mask]: the rows between two dates, in stored order
SelectRows(rows, lo, hi) ==
    IF rows = <<>> THEN <<>>
    ELSE (IF Head(rows).Period >= lo /\ Head(rows).Period <= hi
          THEN <<Head(rows)>> ELSE <<>>) \o SelectRows(Tail(rows), lo, hi)

\* JSON scalars as they arrive from json.load
JNum(n) == [j |-> "num", n |-> n]

JNull == [j |-> "null"]

\* dict.get(k, default)
Get(d, k, default) == IF k \in DOMAIN d THEN d[k] ELSE default

---------------------------------------------------------------------------
(* Dataset registry *)

DATASET_MAPPING ==
    [energy_futures |-> "#1181-Dataset_Germany Energy Futures, Settlement Price",
     cotton_price   |-> "#1597-Dataset_Pima Cotton Price",
     cotton_export  |-> "#1616-Dataset_Pima Cotton Export Quantity"]

KnownNames == DOMAIN DATASET_MAPPING

Folders == {DATASET_MAPPING[n] : n \in KnownNames}

\* the dataset names callers pass: the registered ones and an unregistered one
Names == KnownNames \cup {"nonexistent_dataset"}

---------------------------------------------------------------------------
(* Files of the data directory *)

Missing == [exists |-> FALSE]

\* historical_data.csv: readable is FALSE when pandas cannot read it
CsvFile(cols, rs) ==
    [exists |-> TRUE, readable |-> TRUE, columns |-> cols, rows |-> rs]

UnreadableFile == [exists |-> TRUE, readable |-> FALSE]

\* forecast.json: series is the "forecast_series" object, date -> entry,
\* an entry being [has_qf, qf], qf the entry's "quantile_forecast" object
ForecastFile(hasSeries, s) ==
    [exists |-> TRUE, readable |-> TRUE, has_series |-> hasSeries, series |-> s]

\* drivers.json: entries is the JSON object in file order, <<id, info>> pairs
DriversFile(es) == [exists |-> TRUE, readable |-> TRUE, entries |-> es]

---------------------------------------------------------------------------
(* Data models *)

\* a bug the validation could have: the band lengths are not compared
ForecastData_post_init_NoLengths(forecast_series, quantile_forecast) ==
    IF forecast_series = <<>> THEN "ValueError"
    ELSE IF "0.5" \notin DOMAIN quantile_forecast THEN "ValueError"
    ELSE "ok"

\* ForecastData.__post_init__: "ok", or the exception it raises
ForecastData_post_init(forecast_series, quantile_forecast) ==
    IF forecast_series = <<>> THEN "ValueError"
    ELSE IF "0.5" \notin DOMAIN quantile_forecast THEN "ValueError"
    ELSE IF \E q \in DOMAIN quantile_forecast :
                Len(quantile_forecast[q]) # Len(forecast_series)
    THEN "ValueError"
    ELSE "ok"

\* DriverData.__post_init__: "ok", or the exception it raises.  The scores
\* are JSON values: JNum(n), JNull or another type.
DriverData_post_init(d) ==
    IF \E f \in {"importance_score", "importance_max", "importance_min"} :
           d[f].j # "num"
    THEN "TypeError"
    ELSE IF ~(d.importance_min.n <= d.importance_score.n
              /\ d.importance_score.n <= d.importance_max.n)
    THEN "ValueError"
    ELSE IF d.direction \notin {"positive", "negative"} THEN "ValueError"
    ELSE "ok"

---------------------------------------------------------------------------
(* DataLoader *)

\* DataLoader.__init__: both caches empty; heap holds the objects it made
NewLoader ==
    [cache |-> EmptyDict, drivers_cache |-> EmptyDict, heap |-> EmptyDict]

\* a reference to an object newly constructed for a cache key: distinct from
\* every reference made before
NewRef(L, key) ==
    [key |-> key,
     gen |-> Cardinality({r \in DOMAIN L.heap : r.key = key}) + 1]

Outcome(L, r, ops) == [loader |-> L, res |-> r, io |-> ops]

\* a bug the cache write could have: an entry that is there is kept
StoreIfAbsent(L, cache_key, obj) ==
    LET ref == NewRef(L, cache_key) IN
    [L EXCEPT !.cache = IF cache_key \in DOMAIN @ THEN @
                        ELSE Put(@, cache_key, ref),
              !.heap = Put(@, ref, obj)]

\* "self._cache[cache_key] = obj"
Store(L, cache_key, obj) ==
    LET ref == NewRef(L, cache_key) IN
    [L EXCEPT !.cache = Put(@, cache_key, ref), !.heap = Put(@, ref, obj)]

\* a bug the cache check could have: looking the key up in the other cache
CacheHitOtherCache(L, cache_key) == cache_key \in DOMAIN L.drivers_cache

\* "if cache_key in self._cache"
CacheHit(L, cache_key) == cache_key \in DOMAIN L.cache

\* a bug the not-found path could have: remembering the sentinel
NotFoundRemembered(L, cache_key, ops) ==
    Outcome([L EXCEPT !.cache = Put(@, cache_key, None)], Return(None), ops)

\* "return None" of load_historical and load_forecast
NotFound(L, cache_key, ops) == Outcome(L, Return(None), ops)

load_historical(L, fs, dataset_name) ==
    LET cache_key == dataset_name \o "_historical" IN
    IF CacheHit(L, cache_key)
    THEN Outcome(L, Return(L.cache[cache_key]), <<>>)
    ELSE IF dataset_name \notin DOMAIN DATASET_MAPPING
    THEN NotFound(L, cache_key, <<>>)
    ELSE
      LET csv == fs[DATASET_MAPPING[dataset_name]].historical IN
      IF ~csv.exists THEN NotFound(L, cache_key, <<"exists">>)
      ELSE IF ~csv.readable
      THEN Outcome(L, Raise("DataLoadError"), <<"exists", "read">>)
      ELSE IF \E col \in {"Period", "Value"} : col \notin Range(csv.columns)
      THEN Outcome(L, Raise("DataLoadError"), <<"exists", "read">>)
      ELSE
        LET df == [t |-> "DataFrame", columns |-> csv.columns,
                   rows |-> csv.rows]
            L2 == Store(L, cache_key, df)
        IN Outcome(L2, Return(L2.cache[cache_key]), <<"exists", "read">>)

RECURSIVE Band(_, _, _)
\* the values load_forecast appends to one quantile's list, over the dates
Band(series, dates, q) ==
    IF dates = <<>> THEN <<>>
    ELSE LET e == series[Head(dates)] IN
         (IF e.has_qf /\ q \in DOMAIN e.qf THEN <<e.qf[q]>> ELSE <<>>)
             \o Band(series, Tail(dates), q)

\* the quantile_forecast dict load_forecast builds from the per-date maps
BuildQuantiles(series, dates) ==
    LET qs == UNION {DOMAIN series[d].qf :
                        d \in {x \in DOMAIN series : series[x].has_qf}}
    IN [q \in qs |-> Band(series, dates, q)]

load_forecast(L, fs, dataset_name) ==
    LET cache_key == dataset_name \o "_forecast" IN
    IF CacheHit(L, cache_key)
    THEN Outcome(L, Return(L.cache[cache_key]), <<>>)
    ELSE IF dataset_name \notin DOMAIN DATASET_MAPPING
    THEN NotFound(L, cache_key, <<>>)
    ELSE
      LET json == fs[DATASET_MAPPING[dataset_name]].forecast IN
      IF ~json.exists THEN NotFound(L, cache_key, <<"exists">>)
      ELSE IF ~json.readable
      THEN Outcome(L, Raise("DataLoadError"), <<"exists", "read">>)
      ELSE IF ~json.has_series
      THEN Outcome(L, Raise("DataLoadError"), <<"exists", "read">>)
      ELSE
        LET dates == Sorted(DOMAIN json.series)
            quantile_forecast == BuildQuantiles(json.series, dates)
        IN
        IF "0.5" \notin DOMAIN quantile_forecast
        THEN Outcome(L, Raise("DataLoadError"), <<"exists", "read">>)
        ELSE IF ForecastData_post_init(dates, quantile_forecast) # "ok"
        THEN Outcome(L, Raise("DataLoadError"), <<"exists", "read">>)
        ELSE
          LET forecast_data ==
                  [t |-> "ForecastData", forecast_series |-> dates,
                   quantile_forecast |-> quantile_forecast]
              L2 == Store(L, cache_key, forecast_data)
          IN Outcome(L2, Return(L2.cache[cache_key]), <<"exists", "read">>)

\* a bug the drivers cache could have: one slot for every dataset
load_drivers_OneSlot(L, fs, dataset_name) ==
    IF "drivers" \in DOMAIN L.drivers_cache
    THEN Outcome(L, Return(L.drivers_cache["drivers"]), <<>>)
    ELSE IF dataset_name \notin DOMAIN DATASET_MAPPING
    THEN Outcome(L, Raise("DatasetNotFoundError"), <<>>)
    ELSE
      LET json == fs[DATASET_MAPPING[dataset_name]].drivers IN
      IF ~json.exists THEN Outcome(L, Raise("DataLoadError"), <<"exists">>)
      ELSE IF ~json.readable
      THEN Outcome(L, Raise("DataLoadError"), <<"exists", "read">>)
      ELSE
        LET ref == NewRef(L, dataset_name \o "_drivers")
            data == [t |-> "dict", entries |-> json.entries]
            L2 == [L EXCEPT !.drivers_cache = Put(@, "drivers", ref),
                            !.heap = Put(@, ref, data)]
        IN Outcome(L2, Return(ref), <<"exists", "read">>)

load_drivers(L, fs, dataset_name) ==
    IF dataset_name \in DOMAIN L.drivers_cache
    THEN Outcome(L, Return(L.drivers_cache[dataset_name]), <<>>)
    ELSE IF dataset_name \notin DOMAIN DATASET_MAPPING
    THEN Outcome(L, Raise("DatasetNotFoundError"), <<>>)
    ELSE
      LET json == fs[DATASET_MAPPING[dataset_name]].drivers IN
      IF ~json.exists THEN Outcome(L, Raise("DataLoadError"), <<"exists">>)
      ELSE IF ~json.readable
      THEN Outcome(L, Raise("DataLoadError"), <<"exists", "read">>)
      ELSE
        LET ref == NewRef(L, dataset_name \o "_drivers")
            data == [t |-> "dict", entries |-> json.entries]
            L2 == [L EXCEPT !.drivers_cache = Put(@, dataset_name, ref),
                            !.heap = Put(@, ref, data)]
        IN Outcome(L2, Return(ref), <<"exists", "read">>)

\* re.search(r'(\d+)', lag_str) on a lag text given as its tokens, words
\* [w |-> ...] and digit runs [n |-> ...]: the first number, or None
FirstNumber(tokens) ==
    IF \E i \in 1..Len(tokens) : "n" \in DOMAIN tokens[i]
    THEN JNum(tokens[SetMin({i \in 1..Len(tokens) :
                                 "n" \in DOMAIN tokens[i]})].n)
    ELSE None

\* 'month' in lag_str
MentionsMonth(tokens) ==
    \E i \in 1..Len(tokens) :
        "w" \in DOMAIN tokens[i] /\ tokens[i].w \in {"month", "months", "month(s)"}

\* the DriverData fields load_drivers_parsed extracts from one entry
ExtractDriver(driver_info) ==
    LET importance == Get(Get(driver_info, "importance", EmptyDict),
                          "overall", EmptyDict)
        dir == Get(Get(Get(driver_info, "direction", EmptyDict),
                       "overall", EmptyDict), "mean", JNum(1))
        direction_val == IF dir = JNull THEN JNum(1) ELSE dir
        lag_str == Get(driver_info, "overall_lag", <<>>)
    IN [driver_name |-> Get(driver_info, "driver_name", "Unknown"),
        importance_score |-> Get(importance, "mean", JNum(0)),
        importance_max |-> Get(importance, "max", JNum(0)),
        importance_min |-> Get(importance, "min", JNum(0)),
        direction |-> IF direction_val.n >= 0 THEN "positive" ELSE "negative",
        lag_periods |-> IF lag_str # <<>> /\ MentionsMonth(lag_str)
                        THEN FirstNumber(lag_str) ELSE None]

\* a JSON value that is not an object: null, a number, a text
IsScalar(v) == "j" \in DOMAIN v

\* the exception one entry raises before the try block of
\* load_drivers_parsed is entered, or "ok": .get on a value that is not an
\* object, >= on a direction that is not a number, 'month' in a lag that is
\* a number (held as the single token JNum(n))
ExtractFails(driver_info) ==
    IF IsScalar(driver_info) THEN "AttributeError"
    ELSE
      LET importance == Get(driver_info, "importance", EmptyDict)
          direction == Get(driver_info, "direction", EmptyDict)
          lag_str == Get(driver_info, "overall_lag", <<>>)
      IN
      IF IsScalar(importance) THEN "AttributeError"
      ELSE IF IsScalar(Get(importance, "overall", EmptyDict))
      THEN "AttributeError"
      ELSE IF IsScalar(direction) THEN "AttributeError"
      ELSE IF IsScalar(Get(direction, "overall", EmptyDict))
      THEN "AttributeError"
      ELSE
        LET dir == Get(Get(direction, "overall", EmptyDict), "mean", JNum(1))
        IN
        IF dir.j \notin {"num", "null"} THEN "TypeError"
        ELSE IF \E i \in 1..Len(lag_str) :
                   IsScalar(lag_str[i]) /\ lag_str[i] # JNum(0)
        THEN "TypeError"
        ELSE "ok"

RECURSIVE ParseFails(_)
\* the exception that ends the loop of load_drivers_parsed: that of the
\* first entry, in file order, that raises outside the try block
ParseFails(entries) ==
    IF entries = <<>> THEN "ok"
    ELSE LET e == Head(entries) IN
         IF ~e.target /\ ExtractFails(e.info) # "ok"
         THEN ExtractFails(e.info)
         ELSE ParseFails(Tail(entries))

RECURSIVE ParseDrivers(_)
\* the loop of load_drivers_parsed: target_ entries and entries DriverData
\* rejects are skipped
ParseDrivers(entries) ==
    IF entries = <<>> THEN <<>>
    ELSE LET e == Head(entries)
             d == ExtractDriver(e.info)
         IN (IF e.target \/ DriverData_post_init(d) # "ok" THEN <<>> ELSE <<d>>)
                \o ParseDrivers(Tail(entries))

RECURSIVE InsertDesc(_, _)
InsertDesc(sorted, d) ==
    IF sorted = <<>> THEN <<d>>
    ELSE IF Head(sorted).importance_score.n >= d.importance_score.n
    THEN <<Head(sorted)>> \o InsertDesc(Tail(sorted), d)
    ELSE <<d>> \o sorted

RECURSIVE SortByImportance(_)
\* drivers.sort(key=importance_score, reverse=True): stable, descending
SortByImportance(drivers) ==
    IF drivers = <<>> THEN <<>>
    ELSE InsertDesc(SortByImportance(SubSeq(drivers, 1, Len(drivers) - 1)),
                    drivers[Len(drivers)])

load_drivers_parsed(L, fs, dataset_name) ==
    LET raw == load_drivers(L, fs, dataset_name)
        cache_key == dataset_name \o "_drivers_parsed"
    IN
    IF raw.res.kind = "raise" THEN raw
    ELSE IF CacheHit(raw.loader, cache_key)
    THEN Outcome(raw.loader, Return(raw.loader.cache[cache_key]), raw.io)
    ELSE IF ParseFails(raw.loader.heap[raw.res.val].entries) # "ok"
    THEN Outcome(raw.loader,
                 Raise(ParseFails(raw.loader.heap[raw.res.val].entries)),
                 raw.io)
    ELSE
      LET data == raw.loader.heap[raw.res.val]
          drivers == [t |-> "list",
                      items |-> SortByImportance(ParseDrivers(data.entries))]
          L2 == Store(raw.loader, cache_key, drivers)
      IN Outcome(L2, Return(L2.cache[cache_key]), raw.io)

---------------------------------------------------------------------------
(* Sample datasets *)

Row(p, v) == [Period |-> p, Value |-> v]

GoodCsv == CsvFile(<<"Period", "Value">>, <<Row(2, 10), Row(3, 12), Row(4, 9)>>)

Entry(qf) == [has_qf |-> TRUE, qf |-> qf]

NoQuantiles == [has_qf |-> FALSE, qf |-> EmptyDict]

GoodForecast ==
    ForecastFile(TRUE,
        [d \in {5, 6} |->
            Entry([q \in {"0.1", "0.5", "0.9"} |->
                      IF q = "0.1" THEN d + 3 ELSE IF q = "0.5" THEN d + 5
                      ELSE d + 8])])

DriverInfo(name, mean, dirn, lag) ==
    [driver_name |-> name,
     importance |-> [overall |-> [mean |-> JNum(mean), max |-> JNum(mean + 1),
                                  min |-> JNum(mean - 1)]],
     direction |-> [overall |-> [mean |-> JNum(dirn)]],
     overall_lag |-> <<[n |-> lag], [w |-> "month(s)"]>>]

DriverEntry(id, isTarget, info) == [id |-> id, target |-> isTarget, info |-> info]

GoodDrivers ==
    DriversFile(<<DriverEntry("target_0", TRUE, [driver_name |-> "Target"]),
                  DriverEntry("driver_1", FALSE, DriverInfo("Demand Index", 20, 1, 2)),
                  DriverEntry("driver_2", FALSE, DriverInfo("Oil Price", 35, -1, 6))>>)

GoodFolder == [historical |-> GoodCsv, forecast |-> GoodForecast,
               drivers |-> GoodDrivers]

---------------------------------------------------------------------------
(* A long-lived DataLoader receiving load calls *)

\* the names the load calls of this scenario pass: two registered datasets
\* and an unregistered one
LoaderNames == {"cotton_price", "cotton_export", "nonexistent_dataset"}

\* every data directory in which each file of those datasets is there or not
LoaderDisks ==
    {fs \in [Folders -> [historical : {Missing, GoodCsv},
                         forecast : {Missing, GoodForecast},
                         drivers : {Missing, GoodDrivers}]] :
        fs[DATASET_MAPPING["energy_futures"]] = GoodFolder}

InitLoader ==
    /\ files \in LoaderDisks
    /\ loader = NewLoader
    /\ call = [op |-> "init"]
    /\ ret = Return(None)
    /\ io = <<>>
    /\ qloader = NewLoader

Apply(op, name, out) ==
    /\ loader' = out.loader
    /\ ret' = out.res
    /\ io' = out.io
    /\ call' = [op |-> op, dataset_name |-> name]
    /\ UNCHANGED <<files, qloader>>

LoadHistorical(name) ==
    Apply("load_historical", name, load_historical(loader, files, name))

LoadForecast(name) ==
    Apply("load_forecast", name, load_forecast(loader, files, name))

LoadDrivers(name) ==
    Apply("load_drivers", name, load_drivers(loader, files, name))

LoadDriversParsed(name) ==
    Apply("load_drivers_parsed", name, load_drivers_parsed(loader, files, name))

NextLoader ==
    \E name \in LoaderNames :
        \/ LoadHistorical(name)
        \/ LoadForecast(name)
        \/ LoadDrivers(name)
        \/ LoadDriversParsed(name)

SpecLoader == InitLoader /\ [][NextLoader]_vars

---------------------------------------------------------------------------
(* Claims about the DataLoader, checked under SpecLoader *)

LoadOps == {"load_historical", "load_forecast", "load_drivers_parsed"}

\* the file a load operation reads for a registered dataset
FileOf(fs, op, name) ==
    LET folder == fs[DATASET_MAPPING[name]] IN
    IF op = "load_historical" THEN folder.historical
    ELSE IF op = "load_forecast" THEN folder.forecast
    ELSE folder.drivers

\* the _cache key under which an operation keeps its result
KeyOf(op, name) ==
    IF op = "load_historical" THEN name \o "_historical"
    ELSE IF op = "load_forecast" THEN name \o "_forecast"
    ELSE name \o "_drivers_parsed"

SameLoader(a, b) ==
    /\ a.cache = b.cache
    /\ a.drivers_cache = b.drivers_cache
    /\ a.heap = b.heap

\* C2: for a name that is not registered, or a registered name whose file is
\* missing, load_historical and load_forecast return None without raising
\* and leave the Loader's caches and objects exactly as they were; for a
\* missing file every such call looks for the file again.
C2_NotFoundReturnsSentinel ==
    [][(/\ call'.op \in {"load_historical", "load_forecast"}
        /\ \/ call'.dataset_name \notin KnownNames
           \/ ~FileOf(files, call'.op, call'.dataset_name).exists)
       => /\ ret' = Return(None)
          /\ SameLoader(loader', loader)
          /\ (call'.dataset_name \in KnownNames => io' = <<"exists">>)]_vars

\* a missing file was asked for and answered with None, on a Loader that
\* already caches another dataset
C2_Witness ==
    /\ call.op \in {"load_historical", "load_forecast"}
    /\ call.dataset_name \in KnownNames
    /\ ~FileOf(files, call.op, call.dataset_name).exists
    /\ ret = Return(None)
    /\ loader.cache # EmptyDict

\* C3: once load_historical, load_forecast or load_drivers_parsed has
\* succeeded for a dataset, the object is kept under its key whatever is
\* loaded afterwards, and every later call of that operation for that
\* dataset returns that very object without touching the file system.
C3_CachedIdentityStable ==
    [][/\ \A key \in DOMAIN loader.cache :
            key \in DOMAIN loader'.cache /\ loader'.cache[key] = loader.cache[key]
       /\ call'.op \in LoadOps =>
            LET key == KeyOf(call'.op, call'.dataset_name) IN
            /\ (ret'.kind = "return" /\ ret'.val # None) =>
                   (key \in DOMAIN loader'.cache /\ loader'.cache[key] = ret'.val)
            /\ key \in DOMAIN loader.cache =>
                   (ret' = Return(loader.cache[key]) /\ io' = <<>>)]_vars

\* a parsed-driver list is served from the cache after other loads happened
C3_Witness ==
    /\ call.op = "load_drivers_parsed"
    /\ io = <<>>
    /\ ret.kind = "return"
    /\ Cardinality(DOMAIN loader.cache) >= 3

---------------------------------------------------------------------------
(* load_forecast over forecast files of every shape *)

\* the number of dates a forecast file of this scenario may list
NumForecastDates == 3

QuantileLabels == {"0.1", "0.5", "0.9"}

\* the value a file of this scenario gives quantile q on date d: distinct
\* for distinct (d, q), so that a value tells the date it was read from
ValueAt(d, q) ==
    10 * d + (IF q = "0.1" THEN 1 ELSE IF q = "0.5" THEN 5 ELSE 9)

\* what a file may hold for one date: no quantile_forecast map, or a map
\* over any subset of the quantile labels
DateEntries(d) ==
    {NoQuantiles} \cup {Entry([q \in S |-> ValueAt(d, q)]) : S \in SUBSET QuantileLabels}

ForecastFiles ==
    {Missing, UnreadableFile, ForecastFile(FALSE, EmptyDict)}
    \cup UNION {{ForecastFile(TRUE, s) : s \in {f \in [D -> UNION {DateEntries(d) : d \in D}] :
                                                  \A d \in D : f[d] \in DateEntries(d)}}
                : D \in SUBSET (1..NumForecastDates)}

InitForecast ==
    /\ \E f \in ForecastFiles :
          files = [folder \in Folders |->
                      IF folder = DATASET_MAPPING["cotton_price"]
                      THEN [GoodFolder EXCEPT !.forecast = f] ELSE GoodFolder]
    /\ loader = NewLoader
    /\ call = [op |-> "init"]
    /\ ret = Return(None)
    /\ io = <<>>
    /\ qloader = NewLoader

NextForecast ==
    \E name \in {"cotton_price", "cotton_export"} : LoadForecast(name)

SpecForecast == InitForecast /\ [][NextForecast]_vars

\* the quantile labels a date of a forecast file carries
LabelsAt(f, d) == IF f.series[d].has_qf THEN DOMAIN f.series[d].qf ELSE {}

\* a forecast file in which no date carries "0.5", or some date lacks a
\* quantile that another date has
Ragged(f) ==
    /\ f.exists /\ f.readable /\ f.has_series
    /\ \/ \A d \in DOMAIN f.series : "0.5" \notin LabelsAt(f, d)
       \/ \E d1, d2 \in DOMAIN f.series : LabelsAt(f, d1) # LabelsAt(f, d2)

\* C5: every forecast load_forecast returns or caches has a non-empty,
\* ascending date series, a "0.5" band, and every band as long as the
\* series with its i-th value the one the file gives the i-th date; a file
\* in which no date carries "0.5" or some date lacks a quantile another
\* date has makes load_forecast raise DataLoadError and cache nothing.
C5_ForecastBandsAligned ==
    /\ \A name \in KnownNames :
          LET key == name \o "_forecast" IN
          key \in DOMAIN loader.cache =>
            LET fd == loader.heap[loader.cache[key]]
                f == FileOf(files, "load_forecast", name)
                n == Len(fd.forecast_series)
            IN /\ n >= 1
               /\ \A i \in 1..(n - 1) : fd.forecast_series[i] < fd.forecast_series[i + 1]
               /\ "0.5" \in DOMAIN fd.quantile_forecast
               /\ \A q \in DOMAIN fd.quantile_forecast :
                     /\ Len(fd.quantile_forecast[q]) = n
                     /\ \A i \in 1..n :
                           LET d == fd.forecast_series[i] IN
                           /\ q \in LabelsAt(f, d)
                           /\ fd.quantile_forecast[q][i] = f.series[d].qf[q]
    /\ call.op = "load_forecast" =>
          LET key == call.dataset_name \o "_forecast" IN
          /\ (ret.kind = "return" /\ ret.val # None) =>
                (key \in DOMAIN loader.cache /\ ret.val = loader.cache[key])
          /\ (call.dataset_name \in KnownNames
              /\ Ragged(FileOf(files, "load_forecast", call.dataset_name)))
             => (ret = Raise("DataLoadError") /\ key \notin DOMAIN loader.cache)

\* a file whose dates all carry "0.5" but only some carry "0.9" was refused
C5_Witness ==
    /\ call.op = "load_forecast"
    /\ LET f == FileOf(files, "load_forecast", call.dataset_name) IN
       /\ Ragged(f)
       /\ Cardinality(DOMAIN f.series) >= 2
       /\ \A d \in DOMAIN f.series : "0.5" \in LabelsAt(f, d)
       /\ \E d \in DOMAIN f.series : "0.9" \in LabelsAt(f, d)
    /\ ret = Raise("DataLoadError")

---------------------------------------------------------------------------
(* Historical query functions.  Each creates its own DataLoader; a result  *)
(* is [res, loader, io]: how the call ended, that DataLoader as the call   *)
(* left it, and the file-system operations made.  An optional date         *)
(* argument is <<>> for None and <<d>> for a date.  Values are integers;   *)
(* a number rounded to 2 decimals is held in hundredths.                   *)

QOut(r, ld) == [res |-> r, loader |-> ld.loader, io |-> ld.io]

\* the dataset_not_found payload the query functions return
DatasetNotFoundPayload ==
    [success |-> FALSE, error |-> "dataset_not_found",
     message |-> "Dataset not found. Available datasets: ...",
     available_datasets |-> <<"energy_futures", "cotton_price", "cotton_export">>,
     alternatives |-> <<"What's the latest energy_futures price?",
                        "Show me cotton_price trends",
                        "Compare energy_futures and cotton_price">>]

Periods(rows) == {rows[i].Period : i \in 1..Len(rows)}

\* round(num / den, 0) as Python rounds: to nearest, a tie to even
RoundDiv(num, den) ==
    LET n == IF den < 0 THEN -num ELSE num
        d == IF den < 0 THEN -den ELSE den
        fl == n \div d
        twice == 2 * (n - fl * d)
    IN IF twice < d THEN fl
       ELSE IF twice > d THEN fl + 1
       ELSE IF fl % 2 = 0 THEN fl ELSE fl + 1

get_latest_value(fs, dataset_name) ==
    LET ld == load_historical(NewLoader, fs, dataset_name) IN
    IF ld.res.kind = "raise" THEN QOut(ld.res, ld)
    ELSE IF ld.res.val = None THEN QOut(Return(DatasetNotFoundPayload), ld)
    ELSE
      LET df == ld.loader.heap[ld.res.val]
          latest == PyIndex(df.rows, -1)
      IN IF latest.kind = "raise" THEN QOut(latest, ld)
         ELSE QOut(Return([date |-> latest.val.Period,
                           value |-> latest.val.Value]), ld)

\* a bug the range check could have: the first date counted as outside
BeforeRangeInclusive(date, min_date) == date <= min_date

\* "if date < min_date"
BeforeRange(date, min_date) == date < min_date

get_value_by_date(fs, dataset_name, date) ==
    LET ld == load_historical(NewLoader, fs, dataset_name) IN
    IF ld.res.kind = "raise" THEN QOut(ld.res, ld)
    ELSE IF ld.res.val = None THEN QOut(Return(DatasetNotFoundPayload), ld)
    ELSE
      LET df == ld.loader.heap[ld.res.val] IN
      \* min() of an empty column is NaN, and str < float raises
      IF df.rows = <<>> THEN QOut(Raise("TypeError"), ld)
      ELSE
        LET min_date == SetMin(Periods(df.rows))
            max_date == SetMax(Periods(df.rows))
            available_range == [start |-> min_date, end |-> max_date]
            result == SelectRows(df.rows, date, date)
        IN
        IF BeforeRange(date, min_date)
        THEN QOut(Return([success |-> FALSE, error |-> "date_out_of_range",
                          message |-> "before available data range",
                          available_range |-> available_range,
                          suggested_date |-> min_date]), ld)
        ELSE IF date > max_date
        THEN QOut(Return([success |-> FALSE, error |-> "date_out_of_range",
                          message |-> "after available data range",
                          available_range |-> available_range,
                          suggested_date |-> max_date]), ld)
        ELSE IF result = <<>>
        THEN QOut(Return([success |-> FALSE, error |-> "date_not_found",
                          message |-> "No data found for date",
                          available_range |-> available_range]), ld)
        ELSE QOut(Return([date |-> date, value |-> result[1].Value]), ld)

\* max() and min() of two dates, as in the suggested_range
Max2(a, b) == IF a >= b THEN a ELSE b

Min2(a, b) == IF a <= b THEN a ELSE b

\* the condition under which get_values_by_range reports an error
RangeOutOfBounds(start_date, end_date, min_date, max_date) ==
    start_date < min_date \/ end_date > max_date

get_values_by_range(fs, dataset_name, start_date, end_date) ==
    LET ld == load_historical(NewLoader, fs, dataset_name) IN
    IF ld.res.kind = "raise" THEN QOut(ld.res, ld)
    ELSE IF ld.res.val = None THEN QOut(Return(DatasetNotFoundPayload), ld)
    ELSE
      LET df == ld.loader.heap[ld.res.val] IN
      IF df.rows = <<>> THEN QOut(Raise("TypeError"), ld)
      ELSE
        LET min_date == SetMin(Periods(df.rows))
            max_date == SetMax(Periods(df.rows))
            result == SelectRows(df.rows, start_date, end_date)
        IN
        IF RangeOutOfBounds(start_date, end_date, min_date, max_date)
        THEN QOut(Return([success |-> FALSE, error |-> "date_range_out_of_bounds",
                          message |-> "Requested range is outside available data",
                          available_range |-> [start |-> min_date, end |-> max_date],
                          suggested_range |-> [start |-> Max2(start_date, min_date),
                                               end |-> Min2(end_date, max_date)]]), ld)
        ELSE QOut(Return([list |-> [i \in 1..Len(result) |->
                                       [date |-> result[i].Period,
                                        value |-> result[i].Value]]]), ld)

\* a bug the classification could have: no change counted as an increase
TrendDirectionNoStable(pct_change) ==
    IF pct_change >= 0 THEN "increasing" ELSE "decreasing"

\* "Determination of trend" from the rounded percentage change
TrendDirection(pct_change) ==
    IF pct_change > 0 THEN "increasing"
    ELSE IF pct_change < 0 THEN "decreasing"
    ELSE "stable"

calculate_percentage_change(fs, dataset_name, start_date, end_date) ==
    LET ld == load_historical(NewLoader, fs, dataset_name) IN
    IF ld.res.kind = "raise" THEN QOut(ld.res, ld)
    ELSE IF ld.res.val = None THEN QOut(Return(DatasetNotFoundPayload), ld)
    ELSE
      LET df == ld.loader.heap[ld.res.val] IN
      IF df.rows = <<>> THEN QOut(Raise("TypeError"), ld)
      ELSE
        LET min_date == SetMin(Periods(df.rows))
            max_date == SetMax(Periods(df.rows))
            available_range == [start |-> min_date, end |-> max_date]
            start_row == SelectRows(df.rows, start_date, start_date)
            end_row == SelectRows(df.rows, end_date, end_date)
        IN
        IF start_date < min_date \/ end_date > max_date
        THEN QOut(Return([success |-> FALSE, error |-> "date_out_of_range",
                          message |-> "One or both dates are outside available range",
                          available_range |-> available_range]), ld)
        ELSE IF start_row = <<>> \/ end_row = <<>>
        THEN QOut(Return([success |-> FALSE, error |-> "date_not_found",
                          message |-> "One or both dates not found in data",
                          available_range |-> available_range]), ld)
        ELSE
          LET start_value == start_row[1].Value
              end_value == end_row[1].Value
          IN
          IF start_value = 0 THEN QOut(Raise("ZeroDivisionError"), ld)
          ELSE
            LET pct_change == RoundDiv(10000 * (end_value - start_value),
                                       start_value)
            IN QOut(Return([start_date |-> start_date, end_date |-> end_date,
                            start_value |-> start_value,
                            end_value |-> end_value,
                            percentage_change |-> pct_change,
                            trend_direction |-> TrendDirection(pct_change)]),
                    ld)

get_trend_direction(fs, dataset_name, start_date, end_date) ==
    LET result == calculate_percentage_change(fs, dataset_name, start_date,
                                              end_date)
        direction == GetItem(result.res.val, "trend_direction")
    IN IF result.res.kind = "raise" THEN result
       ELSE IF direction.kind = "raise" THEN [result EXCEPT !.res = direction]
       \* the returned str, held in a record like every other return value
       ELSE [result EXCEPT !.res = Return([str |-> direction.val])]

\* "if start_date and end_date": the rows a peak, valley or average is
\* taken over
Restrict(rows, start_date, end_date) ==
    IF start_date # <<>> /\ end_date # <<>>
    THEN SelectRows(rows, start_date[1], end_date[1])
    ELSE rows

\* df['Value'].idxmax() / idxmin(): the first row holding the extreme value
FirstWith(rows, v) == rows[SetMin({i \in 1..Len(rows) : rows[i].Value = v})]

find_extreme(fs, dataset_name, start_date, end_date, kind) ==
    LET ld == load_historical(NewLoader, fs, dataset_name) IN
    IF ld.res.kind = "raise" THEN QOut(ld.res, ld)
    \* df['Period'] or df['Value'] on None
    ELSE IF ld.res.val = None THEN QOut(Raise("TypeError"), ld)
    ELSE
      LET rows == Restrict(ld.loader.heap[ld.res.val].rows, start_date, end_date)
          values == {rows[i].Value : i \in 1..Len(rows)}
      IN
      \* idxmax of an empty column
      IF rows = <<>> THEN QOut(Raise("ValueError"), ld)
      ELSE
        LET row == FirstWith(rows, IF kind = "peak" THEN SetMax(values)
                                   ELSE SetMin(values))
        IN QOut(Return([date |-> row.Period, value |-> row.Value,
                        type |-> kind]), ld)

find_peak(fs, dataset_name, start_date, end_date) ==
    find_extreme(fs, dataset_name, start_date, end_date, "peak")

find_valley(fs, dataset_name, start_date, end_date) ==
    find_extreme(fs, dataset_name, start_date, end_date, "valley")

find_peak_and_valley(fs, dataset_name, start_date, end_date) ==
    LET peak == find_peak(fs, dataset_name, start_date, end_date)
        valley == find_valley(fs, dataset_name, start_date, end_date)
    IN IF peak.res.kind = "raise" THEN peak
       ELSE IF valley.res.kind = "raise" THEN valley
       ELSE [valley EXCEPT !.res = Return([peak |-> peak.res.val,
                                           valley |-> valley.res.val])]

RECURSIVE SumValues(_, _, _)
SumValues(rows, lo, hi) ==
    IF lo > hi THEN 0 ELSE rows[lo].Value + SumValues(rows, lo + 1, hi)

\* df['MA'] = df['Value'].rolling(window).mean(): the rows with the new
\* column, NaN where fewer than window_size rows precede
WithMA(rows, window_size) ==
    [i \in 1..Len(rows) |->
        [Period |-> rows[i].Period, Value |-> rows[i].Value,
         MA |-> IF i < window_size THEN [nan |-> TRUE]
                ELSE [nan |-> FALSE,
                      sum |-> SumValues(rows, i - window_size + 1, i),
                      n |-> window_size]]]

RECURSIVE DropNaN(_)
DropNaN(rows) ==
    IF rows = <<>> THEN <<>>
    ELSE (IF Head(rows).MA.nan THEN <<>> ELSE <<Head(rows)>>) \o DropNaN(Tail(rows))

calculate_moving_average(fs, dataset_name, window_size, start_date, end_date) ==
    LET ld == load_historical(NewLoader, fs, dataset_name) IN
    IF ld.res.kind = "raise" THEN QOut(ld.res, ld)
    ELSE IF ld.res.val = None THEN QOut(Raise("TypeError"), ld)
    ELSE
      LET ref == ld.res.val
          cached == ld.loader.heap[ref]
          both == start_date # <<>> /\ end_date # <<>>
          rows == WithMA(Restrict(cached.rows, start_date, end_date), window_size)
          \* without both dates df is the cached table itself, and the
          \* column assignment writes into it
          after == IF both THEN ld.loader
                   ELSE [ld.loader EXCEPT !.heap[ref] =
                            [t |-> "DataFrame",
                             columns |-> Append(cached.columns, "MA"),
                             rows |-> rows]]
          kept == DropNaN(rows)
      IN [res |-> Return([list |-> [i \in 1..Len(kept) |->
                            [date |-> kept[i].Period,
                             moving_average |->
                                 RoundDiv(100 * kept[i].MA.sum, kept[i].MA.n)]]]),
          loader |-> after, io |-> ld.io]

---------------------------------------------------------------------------
(* Forecast query functions.  A quantile argument (a float) is held in     *)
(* hundredths: 0.15 is 15.                                                 *)

\* str(quantile): the key a float quantile is looked up under
QuantileKey(q) ==
    CASE q = 5 -> "0.05"
      [] q = 10 -> "0.1"
      [] q = 15 -> "0.15"
      [] q = 50 -> "0.5"
      [] q = 85 -> "0.85"
      [] q = 90 -> "0.9"
      [] q = 95 -> "0.95"

\* a bug the horizon check could have: only negative horizons refused
HorizonOutOfRangeFromZero(months_ahead, max_horizon) ==
    months_ahead < 0 \/ months_ahead > max_horizon

\* "if months_ahead < 1 or months_ahead > max_horizon"
HorizonOutOfRange(months_ahead, max_horizon) ==
    months_ahead < 1 \/ months_ahead > max_horizon

get_forecast(fs, dataset_name, months_ahead) ==
    LET ld == load_forecast(NewLoader, fs, dataset_name) IN
    IF ld.res.kind = "raise" THEN QOut(ld.res, ld)
    ELSE IF ld.res.val = None THEN QOut(Return(DatasetNotFoundPayload), ld)
    ELSE
      LET forecast_data == ld.loader.heap[ld.res.val]
          max_horizon == Len(forecast_data.forecast_series)
      IN
      IF HorizonOutOfRange(months_ahead, max_horizon)
      THEN QOut(Return([success |-> FALSE, error |-> "forecast_out_of_range",
                        message |-> "Forecast for that horizon is not available",
                        max_horizon |-> max_horizon,
                        available_range |-> [min_months |-> 1,
                                             max_months |-> max_horizon]]), ld)
      ELSE
        LET date == PyIndex(forecast_data.forecast_series, months_ahead - 1)
            value == PyIndex(forecast_data.quantile_forecast["0.5"],
                             months_ahead - 1)
        IN IF date.kind = "raise" THEN QOut(date, ld)
           ELSE IF value.kind = "raise" THEN QOut(value, ld)
           ELSE QOut(Return([date |-> date.val,
                             forecast_value |-> value.val]), ld)

get_forecast_with_quantiles(fs, dataset_name, months_ahead) ==
    LET ld == load_forecast(NewLoader, fs, dataset_name) IN
    IF ld.res.kind = "raise" THEN QOut(ld.res, ld)
    ELSE IF ld.res.val = None THEN QOut(Return(DatasetNotFoundPayload), ld)
    ELSE
      LET forecast_data == ld.loader.heap[ld.res.val]
          max_horizon == Len(forecast_data.forecast_series)
      IN
      IF months_ahead < 1 \/ months_ahead > max_horizon
      THEN QOut(Return([success |-> FALSE, error |-> "forecast_out_of_range",
                        message |-> "Forecast for that horizon is not available",
                        max_horizon |-> max_horizon]), ld)
      ELSE
        \* result[f'quantile_{quantile}'] for every band, next to 'date'
        LET qf == forecast_data.quantile_forecast
            keys == {"quantile_" \o q : q \in DOMAIN qf}
        IN QOut(Return([k \in {"date"} \cup keys |->
                          IF k = "date"
                          THEN forecast_data.forecast_series[months_ahead]
                          ELSE qf[CHOOSE q \in DOMAIN qf : "quantile_" \o q = k]
                                 [months_ahead]]), ld)

get_forecast_by_date(fs, dataset_name, date) ==
    LET ld == load_forecast(NewLoader, fs, dataset_name) IN
    IF ld.res.kind = "raise" THEN QOut(ld.res, ld)
    ELSE IF ld.res.val = None THEN QOut(Return(DatasetNotFoundPayload), ld)
    ELSE
      LET forecast_data == ld.loader.heap[ld.res.val]
          series == forecast_data.forecast_series
          min_forecast_date == series[1]
          max_forecast_date == series[Len(series)]
          available_range == [start |-> min_forecast_date,
                              end |-> max_forecast_date]
          index == ListIndex(series, date)
      IN
      IF date < min_forecast_date \/ date > max_forecast_date
      THEN QOut(Return([success |-> FALSE, error |-> "date_out_of_forecast_range",
                        message |-> "No forecast available for that date",
                        available_range |-> available_range]), ld)
      ELSE IF index.kind = "raise"
      \* except ValueError
      THEN QOut(Return([success |-> FALSE, error |-> "date_not_in_forecast",
                        message |-> "No forecast found for date",
                        available_range |-> available_range]), ld)
      ELSE QOut(Return([date |-> date,
                        forecast_value |->
                            forecast_data.quantile_forecast["0.5"][index.val + 1]]),
                ld)

get_all_forecasts(fs, dataset_name) ==
    LET ld == load_forecast(NewLoader, fs, dataset_name) IN
    IF ld.res.kind = "raise" THEN QOut(ld.res, ld)
    \* forecast_data.forecast_series on None
    ELSE IF ld.res.val = None THEN QOut(Raise("AttributeError"), ld)
    ELSE
      LET forecast_data == ld.loader.heap[ld.res.val] IN
      QOut(Return([list |-> [i \in 1..Len(forecast_data.forecast_series) |->
                      [date |-> forecast_data.forecast_series[i],
                       forecast_value |->
                           forecast_data.quantile_forecast["0.5"][i]]]]), ld)

get_quantile_forecast(fs, dataset_name, date, quantile) ==
    LET ld == load_forecast(NewLoader, fs, dataset_name) IN
    IF ld.res.kind = "raise" THEN QOut(ld.res, ld)
    ELSE IF ld.res.val = None THEN QOut(Return(DatasetNotFoundPayload), ld)
    ELSE
      LET forecast_data == ld.loader.heap[ld.res.val]
          quantile_key == QuantileKey(quantile)
          index == ListIndex(forecast_data.forecast_series, date)
      IN
      IF quantile_key \notin DOMAIN forecast_data.quantile_forecast
      THEN QOut(Return([success |-> FALSE, error |-> "quantile_not_available",
                        message |-> "Quantile not available",
                        available_quantiles |->
                            DOMAIN forecast_data.quantile_forecast]), ld)
      \* except ValueError: raise ValueError
      ELSE IF index.kind = "raise" THEN QOut(Raise("ValueError"), ld)
      ELSE QOut(Return([date |-> date, quantile |-> quantile,
                        forecast_value |->
                            forecast_data.quantile_forecast[quantile_key]
                                                           [index.val + 1]]), ld)

\* quantile_map of get_confidence_interval: level -> (lower, upper)
quantile_map == [l \in {80, 90} |-> IF l = 80 THEN <<15, 85>> ELSE <<5, 95>>]

get_confidence_interval(fs, dataset_name, date, confidence_level) ==
    IF confidence_level \notin DOMAIN quantile_map
    THEN [res |-> Return([success |-> FALSE, error |-> "invalid_confidence_level",
                          message |-> "Confidence level not supported",
                          available_levels |-> <<80, 90>>]),
          loader |-> NewLoader, io |-> <<>>]
    ELSE
      LET lower_q == quantile_map[confidence_level][1]
          upper_q == quantile_map[confidence_level][2]
          lower == get_quantile_forecast(fs, dataset_name, date, lower_q)
          upper == get_quantile_forecast(fs, dataset_name, date, upper_q)
          median == get_quantile_forecast(fs, dataset_name, date, 50)
          ops == lower.io \o upper.io \o median.io
      IN
      IF lower.res.kind = "raise" THEN lower
      ELSE IF upper.res.kind = "raise"
      THEN [upper EXCEPT !.io = lower.io \o upper.io]
      ELSE IF median.res.kind = "raise" THEN [median EXCEPT !.io = ops]
      ELSE
        LET lo == GetItem(lower.res.val, "forecast_value")
            up == GetItem(upper.res.val, "forecast_value")
            med == GetItem(median.res.val, "forecast_value")
        IN [res |-> IF lo.kind = "raise" THEN lo
                    ELSE IF up.kind = "raise" THEN up
                    ELSE IF med.kind = "raise" THEN med
                    ELSE Return([date |-> date,
                                 confidence_level |-> confidence_level,
                                 lower_bound |-> lo.val,
                                 upper_bound |-> up.val,
                                 median |-> med.val]),
            loader |-> median.loader, io |-> ops]

\* the label the system gives a change by its sign
TrendOf(change) ==
    IF change > 0 THEN "increasing"
    ELSE IF change < 0 THEN "decreasing"
    ELSE "stable"

compare_current_to_forecast(fs, dataset_name) ==
    LET current == get_latest_value(fs, dataset_name)
        forecast == get_forecast(fs, dataset_name, 1)
        ops == current.io \o forecast.io
    IN
    IF current.res.kind = "raise" THEN current
    ELSE IF forecast.res.kind = "raise" THEN [forecast EXCEPT !.io = ops]
    ELSE
      LET current_value == GetItem(current.res.val, "value")
          forecast_value == GetItem(forecast.res.val, "forecast_value")
      IN [res |->
            IF current_value.kind = "raise" THEN current_value
            ELSE IF forecast_value.kind = "raise" THEN forecast_value
            ELSE IF current_value.val = 0 THEN Raise("ZeroDivisionError")
            ELSE
              LET pct_change ==
                      RoundDiv(10000 * (forecast_value.val - current_value.val),
                               current_value.val)
              IN Return([current_date |-> current.res.val.date,
                         current_value |-> current_value.val,
                         forecast_date |-> forecast.res.val.date,
                         forecast_value |-> forecast_value.val,
                         difference |->
                             100 * (forecast_value.val - current_value.val),
                         percentage_change |-> pct_change,
                         trend_direction |-> TrendOf(pct_change)]),
          loader |-> forecast.loader, io |-> ops]

RECURSIVE MonthlyChanges(_, _)
\* the rounded month-over-month changes of analyze_forecast_trend from the
\* i-th value on; the division raises when the month before is 0
MonthlyChanges(values, i) ==
    IF i > Len(values) THEN Return(<<>>)
    ELSE IF values[i - 1] = 0 THEN Raise("ZeroDivisionError")
    ELSE LET rest == MonthlyChanges(values, i + 1) IN
         IF rest.kind = "raise" THEN rest
         ELSE Return(<<RoundDiv(10000 * (values[i] - values[i - 1]),
                                values[i - 1])>> \o rest.val)

RECURSIVE SumSeq(_)
SumSeq(xs) == IF xs = <<>> THEN 0 ELSE Head(xs) + SumSeq(Tail(xs))

analyze_forecast_trend(fs, dataset_name, months_ahead) ==
    LET ld == load_forecast(NewLoader, fs, dataset_name) IN
    IF ld.res.kind = "raise" THEN QOut(ld.res, ld)
    ELSE IF ld.res.val = None THEN QOut(Return(DatasetNotFoundPayload), ld)
    ELSE
      LET forecast_data == ld.loader.heap[ld.res.val]
          max_horizon == Len(forecast_data.forecast_series)
      IN
      IF months_ahead < 2 \/ months_ahead > max_horizon
      THEN QOut(Return([success |-> FALSE, error |-> "forecast_out_of_range",
                        message |-> "Forecast trend analysis requires at least 2 months",
                        max_horizon |-> max_horizon]), ld)
      ELSE
        LET forecast_values ==
                SubSeq(forecast_data.quantile_forecast["0.5"], 1, months_ahead)
            forecast_dates == SubSeq(forecast_data.forecast_series, 1, months_ahead)
            pct_changes == MonthlyChanges(forecast_values, 2)
        IN
        IF pct_changes.kind = "raise" THEN QOut(pct_changes, ld)
        ELSE
          LET avg_change == RoundDiv(SumSeq(pct_changes.val),
                                     Len(pct_changes.val))
          IN
          QOut(Return([start_date |-> forecast_dates[1],
                       end_date |-> forecast_dates[months_ahead],
                       start_value |-> forecast_values[1],
                       end_value |-> forecast_values[months_ahead],
                       months_analyzed |-> months_ahead,
                       average_monthly_change |-> avg_change,
                       trend_direction |-> TrendOf(avg_change),
                       monthly_changes |-> pct_changes.val]), ld)

---------------------------------------------------------------------------
(* Driver analysis functions *)

RECURSIVE TopDriverRows(_)
\* the loop of get_top_drivers: the entries that have an 'importance' key
TopDriverRows(entries) ==
    IF entries = <<>> THEN <<>>
    ELSE LET info == Head(entries).info
             importance == Get(Get(info, "importance", EmptyDict),
                               "overall", EmptyDict)
         IN (IF "importance" \notin DOMAIN info THEN <<>>
             ELSE <<[name |-> Get(info, "driver_name", "Unknown"),
                     importance_mean |-> Get(importance, "mean", JNum(0)),
                     importance_max |-> Get(importance, "max", JNum(0)),
                     importance_min |-> Get(importance, "min", JNum(0))]>>)
                \o TopDriverRows(Tail(entries))

RECURSIVE InsertByMean(_, _)
InsertByMean(sorted, d) ==
    IF sorted = <<>> THEN <<d>>
    ELSE IF Head(sorted).importance_mean.n >= d.importance_mean.n
    THEN <<Head(sorted)>> \o InsertByMean(Tail(sorted), d)
    ELSE <<d>> \o sorted

RECURSIVE SortByMean(_)
\* drivers.sort(key=importance_mean, reverse=True): stable, descending
SortByMean(drivers) ==
    IF drivers = <<>> THEN <<>>
    ELSE InsertByMean(SortByMean(SubSeq(drivers, 1, Len(drivers) - 1)),
                      drivers[Len(drivers)])

\* drivers[:top_n], a negative top_n counting from the end
SliceTo(seq, top_n) ==
    IF top_n >= 0 THEN SubSeq(seq, 1, Min2(top_n, Len(seq)))
    ELSE SubSeq(seq, 1, Max2(Len(seq) + top_n, 0))

get_top_drivers(fs, dataset_name, top_n) ==
    LET ld == load_drivers(NewLoader, fs, dataset_name) IN
    IF ld.res.kind = "raise" THEN QOut(ld.res, ld)
    ELSE
      LET drivers_data == ld.loader.heap[ld.res.val] IN
      QOut(Return([list |-> SliceTo(SortByMean(TopDriverRows(drivers_data.entries)),
                                    top_n)]), ld)

\* "positive" if direction_value > 0 else "negative"
DirectionOf(direction_value) ==
    IF direction_value.n > 0 THEN "positive" ELSE "negative"

get_driver_details(fs, dataset_name, driver_name) ==
    LET ld == load_drivers(NewLoader, fs, dataset_name) IN
    IF ld.res.kind = "raise" THEN QOut(ld.res, ld)
    ELSE
      LET entries == ld.loader.heap[ld.res.val].entries
          hits == {i \in 1..Len(entries) :
                      /\ "driver_name" \in DOMAIN entries[i].info
                      /\ entries[i].info.driver_name = driver_name}
      IN
      \* "if not driver_info: raise ValueError": the loop found nothing
      IF hits = {} THEN QOut(Raise("ValueError"), ld)
      ELSE
        LET driver_info == entries[SetMin(hits)].info
            dir == Get(Get(Get(driver_info, "direction", EmptyDict),
                           "overall", EmptyDict), "mean", JNum(0))
            direction_value == IF dir = JNull THEN JNum(0) ELSE dir
            direction == DirectionOf(direction_value)
            pearson == Get(Get(driver_info, "pearson_correlation", EmptyDict),
                           "overall", EmptyDict)
            granger == Get(Get(driver_info, "granger_correlation", EmptyDict),
                           "overall", EmptyDict)
            has_lag == "overall_lag" \in DOMAIN driver_info
                       /\ driver_info.overall_lag # <<>>
        IN QOut(Return(
               [name |-> driver_name,
                direction |-> direction,
                direction_explanation |->
                    IF direction = "positive"
                    THEN "When this driver increases, prices tend to increase"
                    ELSE "When this driver increases, prices tend to decrease",
                pearson_correlation |->
                    [mean |-> Get(pearson, "mean", JNum(0)),
                     max |-> Get(pearson, "max", JNum(0)),
                     min |-> Get(pearson, "min", JNum(0))],
                granger_causality |->
                    [mean |-> Get(granger, "mean", JNum(0)),
                     max |-> Get(granger, "max", JNum(0)),
                     min |-> Get(granger, "min", JNum(0))],
                lag |-> IF "overall_lag" \in DOMAIN driver_info
                        THEN [text |-> driver_info.overall_lag] ELSE None,
                lag_explanation |->
                    IF has_lag THEN "Impact occurs {lag_str} after driver changes"
                    ELSE "Lag information not available"]), ld)

---------------------------------------------------------------------------
(* Cross-dataset comparison *)

RECURSIVE LoadAll(_, _, _)
\* "for name in dataset_names: dfs[name] = loader.load_historical(name)" on
\* one DataLoader: the loader after the loop, what the calls read, and the
\* exception that ended the loop early, if any
LoadAll(L, fs, dataset_names) ==
    IF dataset_names = <<>> THEN Outcome(L, Return(None), <<>>)
    ELSE LET first == load_historical(L, fs, Head(dataset_names)) IN
         IF first.res.kind = "raise" THEN first
         ELSE LET rest == LoadAll(first.loader, fs, Tail(dataset_names))
              IN [rest EXCEPT !.io = first.io \o rest.io]

\* a bug the ordering could have: the common dates kept latest first
AlignedDatesDescending(common_dates) ==
    LET asc == Sorted(common_dates)
    IN [i \in 1..Len(asc) |-> asc[Len(asc) + 1 - i]]

\* sorted(common_dates)
AlignedDates(common_dates) == Sorted(common_dates)

compare_datasets(fs, dataset_names) ==
    LET ld == LoadAll(NewLoader, fs, dataset_names) IN
    IF ld.res.kind = "raise" THEN QOut(ld.res, ld)
    \* dataset_names[0] of an empty list
    ELSE IF dataset_names = <<>> THEN QOut(Raise("IndexError"), ld)
    \* dfs[name]['Period'] on None
    ELSE IF \E i \in 1..Len(dataset_names) :
               (dataset_names[i] \o "_historical") \notin DOMAIN ld.loader.cache
    THEN QOut(Raise("TypeError"), ld)
    ELSE
      LET dfs == [name \in Range(dataset_names) |->
                     ld.loader.heap[ld.loader.cache[name \o "_historical"]]]
          common_dates ==
              AlignedDates({d \in Periods(dfs[dataset_names[1]].rows) :
                               \A name \in Range(dataset_names) :
                                   d \in Periods(dfs[name].rows)})
          aligned_data ==
              [i \in 1..Len(common_dates) |->
                  [k \in {"date"} \cup Range(dataset_names) |->
                      IF k = "date" THEN common_dates[i]
                      ELSE SelectRows(dfs[k].rows, common_dates[i],
                                      common_dates[i])[1].Value]]
      IN QOut(Return(
             [datasets |-> dataset_names,
              common_date_range |->
                  IF common_dates # <<>>
                  THEN [start |-> common_dates[1],
                        end |-> common_dates[Len(common_dates)]]
                  ELSE [start |-> None, end |-> None],
              aligned_data |-> aligned_data,
              total_aligned_records |-> Len(aligned_data)]), ld)

Abs(x) == IF x < 0 THEN 0 - x ELSE x

\* drivers[driver].get('lag', 0), None read as 0, of the entry of the raw
\* drivers object that has the given key
RawLag(entries, driver) ==
    LET info == entries[CHOOSE i \in 1..Len(entries) :
                            entries[i].id = driver].info
        lag == Get(info, "lag", JNum(0))
    IN IF lag = JNull THEN 0 ELSE lag.n

RECURSIVE SumLags(_, _, _)
\* sum(... for d in common_drivers) of the lag differences (e2 given) or of
\* one dataset's lags (e2 = <<>>)
SumLags(e1, e2, drivers) ==
    IF drivers = {} THEN 0
    ELSE LET d == CHOOSE x \in drivers : TRUE
             term == IF e2 = <<>> THEN RawLag(e1, d)
                     ELSE Abs(RawLag(e1, d) - RawLag(e2, d))
         IN term + SumLags(e1, e2, drivers \ {d})

\* analyze_timing_relationships from the two raw drivers objects.  An
\* average is compared through the sums; average_lag_months, rounded to 1
\* decimal, is held in tenths.
TimingRelationships(e1, e2, dataset1_name, dataset2_name) ==
    LET common_drivers == {e1[i].id : i \in 1..Len(e1)}
                              \cap {e2[i].id : i \in 1..Len(e2)}
        n == Cardinality(common_drivers)
        diffs == SumLags(e1, e2, common_drivers)
        sum1 == SumLags(e1, <<>>, common_drivers)
        sum2 == SumLags(e2, <<>>, common_drivers)
    IN [dataset1 |-> dataset1_name,
        dataset2 |-> dataset2_name,
        common_drivers |-> common_drivers,
        lead_commodity |->
            IF n > 0 /\ 2 * sum1 < 2 * sum2 - n THEN dataset1_name
            ELSE IF n > 0 /\ 2 * sum2 < 2 * sum1 - n THEN dataset2_name
            ELSE "similar",
        average_lag_months |-> IF n > 0 THEN RoundDiv(10 * diffs, n) ELSE 0,
        timing_insights |->
            [d \in common_drivers |->
                [driver |-> d,
                 dataset1_lag |-> RawLag(e1, d),
                 dataset2_lag |-> RawLag(e2, d),
                 interpretation |->
                     IF RawLag(e1, d) < RawLag(e2, d) THEN "dataset1 first"
                     ELSE IF RawLag(e2, d) < RawLag(e1, d)
                     THEN "dataset2 first"
                     ELSE "both"]],
        predictive_value |->
            IF n > 0 /\ diffs >= 3 * n THEN "high"
            ELSE IF n > 0 /\ diffs >= n THEN "moderate"
            ELSE "low"]

analyze_timing_relationships(fs, dataset1_name, dataset2_name) ==
    LET first == load_drivers(NewLoader, fs, dataset1_name) IN
    IF first.res.kind = "raise" THEN QOut(first.res, first)
    ELSE
      LET second == load_drivers(first.loader, fs, dataset2_name)
          ld == [loader |-> second.loader, io |-> first.io \o second.io]
      IN
      IF second.res.kind = "raise" THEN QOut(second.res, ld)
      ELSE QOut(Return(TimingRelationships(
                           second.loader.heap[first.res.val].entries,
                           second.loader.heap[second.res.val].entries,
                           dataset1_name, dataset2_name)), ld)

---------------------------------------------------------------------------
(* Recommendation functions                                                *)
(* Prices and money amounts are whole numbers, so rounding them to 2       *)
(* decimals changes nothing; a percentage rounded to 2 decimals is held in *)
(* hundredths. The unrounded percentage change 100 * change / current is   *)
(* compared with a threshold by cross-multiplication.                      *)

\* pct_change > t / 10 for pct_change = 100 * price_change / current
PctAbove(price_change, current, tenths) ==
    IF current > 0 THEN 1000 * price_change > tenths * current
    ELSE 1000 * price_change < tenths * current

\* pct_change < t / 10
PctBelow(price_change, current, tenths) ==
    IF current > 0 THEN 1000 * price_change < tenths * current
    ELSE 1000 * price_change > tenths * current

\* abs(pct_change) > t / 10
AbsPctAbove(price_change, current, tenths) ==
    1000 * Abs(price_change) > tenths * Abs(current)

\* savings is abs(price_change) * quantity in the buy_now and wait branches
\* and 0 in the monitor branch, which a hedge override leaves as it is
Savings(recommendation, price_change, quantity) ==
    IF recommendation \in {"buy_now", "wait"}
    THEN Abs(price_change) * quantity ELSE 0

\* the one element of a set that holds one value: a value computed once
\* and then used by name
Once(S) == CHOOSE x \in S : TRUE

\* recommend_forward_buy from the results of its two queries
ForwardBuy(current, forecast, quantity) ==
    LET ops == current.io \o forecast.io IN
    IF current.res.kind = "raise" THEN current
    ELSE IF forecast.res.kind = "raise" THEN [forecast EXCEPT !.io = ops]
    ELSE
      LET forecast_value == GetItem(forecast.res.val, "forecast_value")
          current_value == GetItem(current.res.val, "value")
      IN [res |->
            IF forecast_value.kind = "raise" THEN forecast_value
            ELSE IF current_value.kind = "raise" THEN current_value
            ELSE IF current_value.val = 0 THEN Raise("ZeroDivisionError")
            ELSE
              LET c == current_value.val
                  price_change == forecast_value.val - c
                  branch == IF PctAbove(price_change, c, 20) THEN "buy_now"
                            ELSE IF PctBelow(price_change, c, -20) THEN "wait"
                            ELSE "monitor"
                  uncertain == /\ AbsPctAbove(price_change, c, 5)
                               /\ ~AbsPctAbove(price_change, c, 20)
                  recommendation == IF uncertain THEN "hedge" ELSE branch
              IN Return([recommendation |-> recommendation,
                         current_price |-> c,
                         current_date |-> current.res.val.date,
                         forecast_price |-> forecast_value.val,
                         forecast_date |-> forecast.res.val.date,
                         price_change_pct |-> RoundDiv(10000 * price_change, c),
                         price_change_abs |-> price_change,
                         savings |-> Savings(branch, price_change, quantity),
                         rationale |->
                             CASE recommendation = "buy_now" ->
                                    "Price expected to rise. Buy now to lock in lower price."
                               [] recommendation = "wait" ->
                                    "Price expected to fall. Wait for lower prices."
                               [] recommendation = "hedge" ->
                                    "Price movement uncertain. Consider buying 50-70% now, wait on rest."
                               [] OTHER ->
                                    "Price stable. No urgency to act. Monitor for changes.",
                         action |-> CASE recommendation = "buy_now" -> "buying now"
                                      [] recommendation = "wait" -> "waiting"
                                      [] recommendation = "hedge" -> "hedging"
                                      [] OTHER -> "monitoring",
                         quantity |-> quantity]),
          loader |-> forecast.loader, io |-> ops]

recommend_forward_buy(fs, dataset_name, months_ahead, quantity) ==
    Once({ForwardBuy(current, forecast, quantity) :
              current \in {get_latest_value(fs, dataset_name)},
              forecast \in {get_forecast(fs, dataset_name, months_ahead)}})

\* calculate_scenario of calculate_impact_analysis
calculate_scenario(forecast_price, scenario_name, current_price, quantity) ==
    LET price_change == forecast_price - current_price IN
    [scenario |-> scenario_name,
     forecast_price |-> forecast_price,
     price_change_abs |-> price_change,
     price_change_pct |-> RoundDiv(10000 * price_change, current_price),
     total_impact |-> price_change * quantity,
     impact_per_unit |-> price_change]

\* calculate_impact_analysis from the results of its two queries
ImpactAnalysis(current, forecast_data, dataset_name, months_ahead, quantity) ==
    IF current.res.kind = "raise" THEN current
    ELSE
      LET current_price == GetItem(current.res.val, "value")
          ops == current.io \o forecast_data.io
      IN
      IF current_price.kind = "raise"
      THEN [current EXCEPT !.res = current_price]
      ELSE IF forecast_data.res.kind = "raise"
      THEN [forecast_data EXCEPT !.io = ops]
      ELSE
        LET q10 == GetItem(forecast_data.res.val, "quantile_0.1")
            q50 == GetItem(forecast_data.res.val, "quantile_0.5")
            q90 == GetItem(forecast_data.res.val, "quantile_0.9")
        IN [res |->
              IF q10.kind = "raise" THEN q10
              ELSE IF q50.kind = "raise" THEN q50
              ELSE IF q90.kind = "raise" THEN q90
              ELSE IF current_price.val = 0 THEN Raise("ZeroDivisionError")
              ELSE
                LET c == current_price.val
                    price_direction == IF q50.val > c THEN "rising"
                                       ELSE "falling"
                    rising == price_direction = "rising"
                IN Return(
                     [dataset |-> dataset_name,
                      current_price |-> c,
                      current_date |-> current.res.val.date,
                      forecast_date |-> forecast_data.res.val.date,
                      months_ahead |-> months_ahead,
                      quantity |-> quantity,
                      price_direction |-> price_direction,
                      best_case |->
                          calculate_scenario(IF rising THEN q10.val ELSE q90.val,
                                             "best_case", c, quantity),
                      expected |->
                          calculate_scenario(q50.val, "expected", c, quantity),
                      worst_case |->
                          calculate_scenario(IF rising THEN q90.val ELSE q10.val,
                                             "worst_case", c, quantity),
                      confidence_range |-> [min |-> q10.val, median |-> q50.val,
                                            max |-> q90.val]]),
            loader |-> forecast_data.loader, io |-> ops]

calculate_impact_analysis(fs, dataset_name, months_ahead, quantity) ==
    Once({ImpactAnalysis(current, forecast_data, dataset_name, months_ahead,
                         quantity) :
              current \in {get_latest_value(fs, dataset_name)},
              forecast_data \in {get_forecast_with_quantiles(fs, dataset_name,
                                                             months_ahead)}})

RECURSIVE Dedup(_)
\* the keys of a dict filled from a list, in order of first insertion
Dedup(names) ==
    IF names = <<>> THEN <<>>
    ELSE LET init == Dedup(SubSeq(names, 1, Len(names) - 1))
             last == names[Len(names)]
         IN IF last \in Range(init) THEN init ELSE Append(init, last)

\* one more recommendation put in front of those of the rest of the list
WithRecommendation(rec, rest, dataset, last) ==
    IF rec.res.kind = "raise" THEN rec
    ELSE IF rest.res.kind = "raise"
    THEN [rest EXCEPT !.io = rec.io \o rest.io]
    ELSE [res |-> Return(Put(rest.res.val, dataset, rec.res.val)),
          loader |-> IF last THEN rec.loader ELSE rest.loader,
          io |-> rec.io \o rest.io]

RECURSIVE RecommendAll(_, _, _, _)
\* the loop "rec = recommend_forward_buy(dataset, ...)" over the list: the
\* first call that raises ends it
RecommendAll(fs, dataset_names, months_ahead, quantity) ==
    IF dataset_names = <<>>
    THEN [res |-> Return(EmptyDict), loader |-> NewLoader, io |-> <<>>]
    ELSE Once({WithRecommendation(rec, rest, Head(dataset_names),
                                  Tail(dataset_names) = <<>>) :
                  rec \in {recommend_forward_buy(fs, Head(dataset_names),
                                                 months_ahead, quantity)},
                  rest \in {RecommendAll(fs, Tail(dataset_names),
                                         months_ahead, quantity)}})

\* a bug the bonus could have: a change of exactly 5% counted as large
LargeChangeFromFive(price_change_pct) == Abs(price_change_pct) >= 500

\* "if price_change_magnitude > 5", the percentage held in hundredths
LargeChange(price_change_pct) == Abs(price_change_pct) > 500

\* the urgency score of one recommendation
Urgency(rec) ==
    (IF "recommendation" \in DOMAIN rec /\ rec.recommendation = "buy_now" THEN 3
     ELSE IF "recommendation" \in DOMAIN rec /\ rec.recommendation = "wait" THEN 2
     ELSE 1)
    + (IF LargeChange(rec.price_change_pct) THEN 1 ELSE 0)

RECURSIVE InsertByUrgency(_, _)
InsertByUrgency(sorted, a) ==
    IF sorted = <<>> THEN <<a>>
    ELSE IF Head(sorted).urgency_score >= a.urgency_score
    THEN <<Head(sorted)>> \o InsertByUrgency(Tail(sorted), a)
    ELSE <<a>> \o sorted

RECURSIVE SortByUrgency(_)
\* prioritized.sort(key=urgency_score, reverse=True): stable, descending
SortByUrgency(actions) ==
    IF actions = <<>> THEN <<>>
    ELSE InsertByUrgency(SortByUrgency(SubSeq(actions, 1, Len(actions) - 1)),
                         actions[Len(actions)])

RECURSIVE SumSavings(_)
SumSavings(actions) ==
    IF actions = <<>> THEN 0
    ELSE Head(actions).savings + SumSavings(Tail(actions))

\* analyze_multi_commodity_scenario from the recommendations and the
\* comparison of the datasets
MultiCommodity(recs, compared, dataset_names, months_ahead) ==
    IF recs.res.kind = "raise" THEN recs
    ELSE
      LET recommendations == recs.res.val
          many == Len(dataset_names) > 1
          ops == IF many THEN recs.io \o compared.io ELSE recs.io
          last == IF many THEN compared.loader ELSE recs.loader
      IN
      IF many /\ compared.res.kind = "raise"
      THEN [res |-> compared.res, loader |-> last, io |-> ops]
      ELSE
        LET keys == Dedup(dataset_names)
            prioritized ==
                SortByUrgency(
                    [i \in 1..Len(keys) |->
                        LET rec == recommendations[keys[i]] IN
                        [dataset |-> keys[i],
                         recommendation |-> rec.recommendation,
                         urgency_score |-> Urgency(rec),
                         price_change_pct |-> rec.price_change_pct,
                         savings |-> rec.savings,
                         rationale |-> rec.rationale,
                         current_price |-> rec.current_price,
                         forecast_price |-> rec.forecast_price]])
            buy_count == Cardinality({i \in 1..Len(prioritized) :
                             prioritized[i].recommendation = "buy_now"})
            wait_count == Cardinality({i \in 1..Len(prioritized) :
                              prioritized[i].recommendation = "wait"})
        IN [res |-> Return(
                [datasets_analyzed |-> dataset_names,
                 months_ahead |-> months_ahead,
                 individual_recommendations |-> recommendations,
                 prioritized_actions |-> prioritized,
                 correlation_data |-> IF many THEN compared.res.val ELSE None,
                 \* "if correlation_data and 'correlation' in
                 \* correlation_data", the coefficient in hundredths
                 insights |->
                     (IF /\ many
                         /\ "correlation" \in DOMAIN compared.res.val
                         /\ Abs(compared.res.val.correlation) > 50
                      THEN <<"Correlation">> ELSE <<>>)
                     \o (IF buy_count > 0 /\ wait_count > 0
                         THEN <<"Mixed signals">> ELSE <<>>),
                 total_potential_savings |-> SumSavings(prioritized)]),
            loader |-> last, io |-> ops]

analyze_multi_commodity_scenario(fs, dataset_names, months_ahead, quantity) ==
    Once({MultiCommodity(recs, compared, dataset_names, months_ahead) :
              recs \in {RecommendAll(fs, dataset_names, months_ahead, quantity)},
              compared \in {IF Len(dataset_names) > 1
                            THEN compare_datasets(fs, dataset_names)
                            ELSE [res |-> Return(None), loader |-> NewLoader,
                                  io |-> <<>>]}})

\* one commodity of recommend_production_sequencing from the results of
\* its two queries: the entry appended to commodity_analysis, or what was
\* raised
CommodityEntry(current, forecast, dataset) ==
    LET ops == current.io \o forecast.io IN
    IF current.res.kind = "raise" THEN current
    ELSE IF forecast.res.kind = "raise" THEN [forecast EXCEPT !.io = ops]
    ELSE
      LET forecast_value == GetItem(forecast.res.val, "forecast_value")
          current_value == GetItem(current.res.val, "value")
      IN [res |->
            IF forecast_value.kind = "raise" THEN forecast_value
            ELSE IF current_value.kind = "raise" THEN current_value
            ELSE IF current_value.val = 0 THEN Raise("ZeroDivisionError")
            ELSE
              LET c == current_value.val
                  price_change == forecast_value.val - c
                  favorability ==
                      IF ~PctAbove(price_change, c, 0) THEN "favorable"
                      ELSE IF ~PctAbove(price_change, c, 20)
                      THEN "moderately_favorable"
                      ELSE "unfavorable"
              IN Return([dataset |-> dataset,
                         current_price |-> c,
                         forecast_price |-> forecast_value.val,
                         price_change_pct |-> RoundDiv(10000 * price_change, c),
                         favorability |-> favorability,
                         priority |-> CASE favorability = "favorable" -> 1
                                        [] favorability = "moderately_favorable" -> 2
                                        [] OTHER -> 3,
                         current_date |-> current.res.val.date,
                         forecast_date |-> forecast.res.val.date]),
          loader |-> forecast.loader, io |-> ops]

\* one more entry put in front of those of the rest of the list
WithCommodity(entry, rest, last) ==
    IF entry.res.kind = "raise" THEN entry
    ELSE IF rest.res.kind = "raise"
    THEN [rest EXCEPT !.io = entry.io \o rest.io]
    ELSE [res |-> Return([list |-> <<entry.res.val>> \o rest.res.val.list]),
          loader |-> IF last THEN entry.loader ELSE rest.loader,
          io |-> entry.io \o rest.io]

RECURSIVE AnalyzeCommodities(_, _, _)
\* the loop over dataset_names that fills commodity_analysis: the first
\* query that raises ends it
AnalyzeCommodities(fs, dataset_names, months_ahead) ==
    IF dataset_names = <<>>
    THEN [res |-> Return([list |-> <<>>]), loader |-> NewLoader, io |-> <<>>]
    ELSE Once({WithCommodity(entry, rest, Tail(dataset_names) = <<>>) :
                  entry \in {Once({CommodityEntry(current, forecast,
                                                  Head(dataset_names)) :
                                current \in {get_latest_value(fs,
                                                Head(dataset_names))},
                                forecast \in {get_forecast(fs,
                                                 Head(dataset_names),
                                                 months_ahead)}})},
                  rest \in {AnalyzeCommodities(fs, Tail(dataset_names),
                                               months_ahead)}})

RECURSIVE InsertByPriority(_, _)
InsertByPriority(sorted, a) ==
    IF sorted = <<>> THEN <<a>>
    ELSE IF Head(sorted).priority <= a.priority
    THEN <<Head(sorted)>> \o InsertByPriority(Tail(sorted), a)
    ELSE <<a>> \o sorted

RECURSIVE SortByPriority(_)
\* commodity_analysis.sort(key=priority): stable, ascending
SortByPriority(entries) ==
    IF entries = <<>> THEN <<>>
    ELSE InsertByPriority(SortByPriority(SubSeq(entries, 1, Len(entries) - 1)),
                          entries[Len(entries)])

\* recommend_production_sequencing from the entries of commodity_analysis
ProductionSequencing(analysed, dataset_names, months_ahead) ==
    IF analysed.res.kind = "raise" THEN analysed
    ELSE
      LET commodity_analysis == SortByPriority(analysed.res.val.list)
          n == Len(commodity_analysis)
          isFavorable(c) ==
              c.favorability \in {"favorable", "moderately_favorable"}
      IN [analysed EXCEPT !.res = Return(
            [datasets_analyzed |-> dataset_names,
             months_ahead |-> months_ahead,
             commodity_analysis |-> commodity_analysis,
             recommended_sequence |->
                 [i \in 1..n |->
                     [sequence_order |-> i,
                      dataset |-> commodity_analysis[i].dataset,
                      recommendation |->
                          CASE commodity_analysis[i].favorability = "favorable"
                                 -> "Prioritize production"
                            [] commodity_analysis[i].favorability
                                   = "moderately_favorable"
                                 -> "Schedule production normally"
                            [] OTHER -> "Delay production if possible",
                      favorability |-> commodity_analysis[i].favorability,
                      price_trend |-> commodity_analysis[i].price_change_pct]],
             favorable_commodities |->
                 LET kept == SelectSeq(commodity_analysis, isFavorable)
                 IN [i \in 1..Len(kept) |-> kept[i].dataset],
             unfavorable_commodities |->
                 LET kept == SelectSeq(commodity_analysis,
                                       LAMBDA c : ~isFavorable(c))
                 IN [i \in 1..Len(kept) |-> kept[i].dataset]])]

recommend_production_sequencing(fs, dataset_names, months_ahead) ==
    Once({ProductionSequencing(analysed, dataset_names, months_ahead) :
              analysed \in {AnalyzeCommodities(fs, dataset_names,
                                               months_ahead)}})

---------------------------------------------------------------------------
(* Negotiation support                                                     *)
(* A talking point's text is held as the name of its template.             *)

\* the point appended for one driver, none when get_driver_details raised
\* ValueError or KeyError, or the exception that is not caught
DriverPoint(detail, dataset_name) ==
    IF detail.res.kind = "raise"
    THEN IF detail.res.exc \in {"ValueError", "KeyError"}
         THEN Return(<<>>) ELSE detail.res
    ELSE LET direction == Get(detail.res.val, "direction", "neutral") IN
         Return(<<[point |-> "driver shows correlation",
                   type |-> IF direction = "positive"
                            THEN "supporting_increase"
                            ELSE "contradicting_increase",
                   citation |-> "Driver analysis: " \o dataset_name]>>)

\* the points so far with those of one more driver
WithDriverPoint(detail, rest, dataset_name) ==
    LET point == DriverPoint(detail, dataset_name) IN
    IF point.kind = "raise" THEN [detail EXCEPT !.res = point]
    ELSE IF rest.res.kind = "raise"
    THEN [rest EXCEPT !.io = detail.io \o rest.io]
    ELSE [res |-> Return([list |-> point.val \o rest.res.val.list]),
          loader |-> IF rest.io = <<>> THEN detail.loader ELSE rest.loader,
          io |-> detail.io \o rest.io]

RECURSIVE DriverPoints(_, _, _)
\* "for driver in drivers[:3]"
DriverPoints(fs, dataset_name, drivers) ==
    IF drivers = <<>>
    THEN [res |-> Return([list |-> <<>>]), loader |-> NewLoader, io |-> <<>>]
    ELSE Once({WithDriverPoint(detail, rest, dataset_name) :
                  detail \in {get_driver_details(fs, dataset_name,
                                                 Head(drivers).name)},
                  rest \in {DriverPoints(fs, dataset_name, Tail(drivers))}})

\* generate_negotiation_talking_points from the results of its queries
TalkingPoints(current, forecast, drivers, fs, dataset_name) ==
    IF current.res.kind = "raise" THEN current
    ELSE IF forecast.res.kind = "raise"
    THEN [forecast EXCEPT !.io = current.io \o forecast.io]
    ELSE IF drivers.res.kind = "raise"
    THEN [drivers EXCEPT !.io = current.io \o forecast.io \o drivers.io]
    ELSE
      LET forecast_value == GetItem(forecast.res.val, "forecast_value")
          current_value == GetItem(current.res.val, "value")
          queried == current.io \o forecast.io \o drivers.io
      IN
      IF forecast_value.kind = "raise"
      THEN [drivers EXCEPT !.res = forecast_value, !.io = queried]
      ELSE IF current_value.kind = "raise"
      THEN [drivers EXCEPT !.res = current_value, !.io = queried]
      ELSE IF current_value.val = 0
      THEN [drivers EXCEPT !.res = Raise("ZeroDivisionError"), !.io = queried]
      ELSE
        LET rising == PctAbove(forecast_value.val - current_value.val,
                               current_value.val, 0)
            top == SliceTo(drivers.res.val.list, 3)
        IN Once({IF points.res.kind = "raise"
                 THEN [points EXCEPT !.io = queried \o points.io]
                 ELSE [res |-> Return(
                          [dataset |-> dataset_name,
                           talking_points |->
                               <<[point |-> "Current market price",
                                  type |-> "fact",
                                  citation |-> "Historical data: "
                                                  \o dataset_name],
                                 [point |-> IF rising THEN "Forecast shows increase"
                                            ELSE "Forecast shows decrease",
                                  type |-> IF rising THEN "supporting_increase"
                                           ELSE "contradicting_increase",
                                  citation |-> "Forecast data: "
                                                  \o dataset_name]>>
                               \o points.res.val.list,
                           market_context |->
                               [current_price |-> current_value.val,
                                forecast_price |-> forecast_value.val,
                                price_trend |-> IF rising THEN "rising"
                                                ELSE "falling",
                                top_drivers |->
                                    [i \in 1..Len(top) |-> top[i].name]]]),
                       loader |-> IF points.io = <<>> THEN drivers.loader
                                  ELSE points.loader,
                       io |-> queried \o points.io] :
                    points \in {DriverPoints(fs, dataset_name, top)}})

generate_negotiation_talking_points(fs, dataset_name, months_ahead) ==
    Once({TalkingPoints(current, forecast, drivers, fs, dataset_name) :
              current \in {get_latest_value(fs, dataset_name)},
              forecast \in {get_forecast(fs, dataset_name, months_ahead)},
              drivers \in {get_top_drivers(fs, dataset_name, 5)}})

\* "a or b or c" over forecast_data.get(key) for three keys: the first value
\* that is neither None nor 0, else what the last get returns
FirstTruthy(forecast_data, keys) ==
    LET truthy == {i \in 1..Len(keys) :
                      /\ keys[i] \in DOMAIN forecast_data
                      /\ forecast_data[keys[i]] # 0}
    IN IF truthy # {} THEN JNum(forecast_data[keys[SetMin(truthy)]])
       ELSE IF keys[Len(keys)] \in DOMAIN forecast_data
       THEN JNum(forecast_data[keys[Len(keys)]])
       ELSE JNull

\* the if/elif chain of validate_supplier_claim; x > m + m * 0.02 is
\* compared as 100 * x > 102 * m
Classification(claimed_price, low, median, high) ==
    IF claimed_price > high THEN "above_forecast_range"
    ELSE IF claimed_price < low THEN "below_forecast_range"
    ELSE IF 100 * claimed_price > 102 * median THEN "above_forecast"
    ELSE IF 100 * claimed_price < 98 * median THEN "below_forecast"
    ELSE "aligned_with_forecast"

\* validate_supplier_claim from the results of its two queries
SupplierClaim(current, forecast, dataset_name, claimed_price) ==
    LET ops == current.io \o forecast.io IN
    IF current.res.kind = "raise" THEN current
    ELSE IF forecast.res.kind = "raise" THEN [forecast EXCEPT !.io = ops]
    ELSE
      LET forecast_data == forecast.res.val
          forecast_median == GetItem(forecast_data, "quantile_0.5")
          forecast_low == FirstTruthy(forecast_data,
                              <<"quantile_0.1", "quantile_0.05", "quantile_0.15">>)
          forecast_high == FirstTruthy(forecast_data,
                               <<"quantile_0.9", "quantile_0.95", "quantile_0.85">>)
          current_price == GetItem(current.res.val, "value")
      IN [res |->
            IF forecast_median.kind = "raise" THEN forecast_median
            ELSE IF forecast_median.val = 0 THEN Raise("ZeroDivisionError")
            \* claimed_price > None, claimed_price < None, round(None, 2)
            ELSE IF forecast_high = JNull THEN Raise("TypeError")
            ELSE IF forecast_low = JNull THEN Raise("TypeError")
            ELSE IF current_price.kind = "raise" THEN current_price
            ELSE Return(
                [dataset |-> dataset_name,
                 claimed_price |-> claimed_price,
                 forecast_median |-> forecast_median.val,
                 forecast_range |-> [low |-> forecast_low.n,
                                     high |-> forecast_high.n],
                 difference_abs |-> claimed_price - forecast_median.val,
                 difference_pct |->
                     RoundDiv(10000 * (claimed_price - forecast_median.val),
                              forecast_median.val),
                 classification |->
                     Classification(claimed_price, forecast_low.n,
                                    forecast_median.val, forecast_high.n),
                 current_price |-> current_price.val,
                 forecast_date |-> forecast_data.date]),
          loader |-> forecast.loader, io |-> ops]

validate_supplier_claim(fs, dataset_name, claimed_price, months_ahead) ==
    Once({SupplierClaim(current, forecast, dataset_name, claimed_price) :
              current \in {get_latest_value(fs, dataset_name)},
              forecast \in {get_forecast_with_quantiles(fs, dataset_name,
                                                        months_ahead)}})

---------------------------------------------------------------------------
(* Agent tools *)

\* {'query_type': ..., 'dataset': ..., **result}: the keys of result win
Merge(head, result) == result @@ head

\* str.lower() of the words the callers of this model pass
Lower(word) ==
    CASE word = "Latest" -> "latest"
      [] word = "NOW" -> "now"
      [] OTHER -> word

\* "date and date.lower() in [...]": a date argument is <<>> when omitted,
\* else <<[day |-> d]>> for a calendar date or <<[word |-> w]>> for a word
IsKeyword(date, keywords) ==
    /\ date # <<>>
    /\ "word" \in DOMAIN date[1]
    /\ Lower(date[1].word) \in keywords

\* the place of a date string among the dates of the data, which are
\* compared as strings: a word of letters lies after every calendar date
DayOf(date) == IF "day" \in DOMAIN date THEN date.day ELSE 99

\* len(values) of what get_values_by_range returned: a list, or a dict
LenOf(values) ==
    IF "list" \in DOMAIN values THEN Len(values.list)
    ELSE Cardinality(DOMAIN values)

\* start_date and end_date are <<>> when omitted, <<d>> when given
query_historical_data(fs, dataset_name, date, start_date, end_date) ==
    IF start_date # <<>> /\ end_date # <<>>
    THEN Once({IF values.res.kind = "raise" THEN values
               ELSE [values EXCEPT !.res =
                        Return([query_type |-> "range",
                                dataset |-> dataset_name,
                                start_date |-> start_date[1],
                                end_date |-> end_date[1],
                                values |-> values.res.val,
                                count |-> LenOf(values.res.val)])] :
                  values \in {get_values_by_range(fs, dataset_name,
                                                  start_date[1], end_date[1])}})
    ELSE IF date # <<>> /\ ~IsKeyword(date, {"latest", "current", "now"})
    THEN Once({IF result.res.kind = "raise" THEN result
               ELSE [result EXCEPT !.res =
                        Return(Merge([query_type |-> "specific_date",
                                      dataset |-> dataset_name],
                                     result.res.val))] :
                  result \in {get_value_by_date(fs, dataset_name,
                                                DayOf(date[1]))}})
    ELSE Once({IF result.res.kind = "raise" THEN result
               ELSE [result EXCEPT !.res =
                        Return(Merge([query_type |-> "latest",
                                      dataset |-> dataset_name],
                                     result.res.val))] :
                  result \in {get_latest_value(fs, dataset_name)}})

query_forecast_data(fs, dataset_name, months_ahead, date) ==
    IF date # <<>> /\ ~IsKeyword(date, {"latest", "next", "soon"})
    THEN Once({IF result.res.kind = "raise" THEN result
               ELSE [result EXCEPT !.res =
                        Return(Merge([query_type |-> "specific_date",
                                      dataset |-> dataset_name],
                                     result.res.val))] :
                  result \in {get_forecast_by_date(fs, dataset_name,
                                                   DayOf(date[1]))}})
    ELSE Once({IF result.res.kind = "raise" THEN result
               ELSE [result EXCEPT !.res =
                        Return(Merge([query_type |-> "months_ahead",
                                      dataset |-> dataset_name,
                                      months_ahead |-> months_ahead],
                                     result.res.val))] :
                  result \in {get_forecast(fs, dataset_name, months_ahead)}})

\* driver_name is <<>> when omitted, <<name>> when given
analyze_market_drivers(fs, dataset_name, top_n, driver_name) ==
    IF driver_name # <<>>
    THEN LET result == get_driver_details(fs, dataset_name, driver_name[1]) IN
         IF result.res.kind = "raise" THEN result
         ELSE [result EXCEPT !.res =
                  Return(Merge([query_type |-> "driver_details",
                                dataset |-> dataset_name], result.res.val))]
    ELSE LET top_drivers == get_top_drivers(fs, dataset_name, top_n) IN
         IF top_drivers.res.kind = "raise" THEN top_drivers
         ELSE [top_drivers EXCEPT !.res =
                  Return([query_type |-> "top_drivers",
                          dataset |-> dataset_name,
                          top_n |-> top_n,
                          drivers |-> top_drivers.res.val.list])]

---------------------------------------------------------------------------
(* Point and range lookups over historical tables of every shape *)

\* the longest historical table of this scenario
MaxRows == 3

\* the dates the tables of this scenario hold, and the dates asked for
TableDates == {2, 3, 4}

QueryDates == {1, 2, 3, 4, 5}

TableValues == {10, 12}

\* tables in any order, with gaps and with repeated dates
Tables ==
    UNION {[1..n -> {Row(p, v) : p \in TableDates, v \in TableValues}]
              : n \in 0..MaxRows}

DiskWith(name, folder) ==
    [f \in Folders |-> IF f = DATASET_MAPPING[name] THEN folder ELSE GoodFolder]

InitHistorical ==
    /\ \E rows \in Tables :
          files = DiskWith("cotton_price",
                      [GoodFolder EXCEPT !.historical =
                           CsvFile(<<"Period", "Value">>, rows)])
    /\ loader = NewLoader
    /\ call = [op |-> "init"]
    /\ ret = Return(None)
    /\ io = <<>>
    /\ qloader = NewLoader

\* a query function was called and has returned or raised
Query(c, out) ==
    /\ call' = c
    /\ ret' = out.res
    /\ io' = out.io
    /\ qloader' = out.loader
    /\ UNCHANGED <<files, loader>>

GetLatestValue(name) ==
    Query([op |-> "get_latest_value", dataset_name |-> name],
          get_latest_value(files, name))

GetValueByDate(name, date) ==
    Query([op |-> "get_value_by_date", dataset_name |-> name, date |-> date],
          get_value_by_date(files, name, date))

GetValuesByRange(name, start_date, end_date) ==
    Query([op |-> "get_values_by_range", dataset_name |-> name,
           start_date |-> start_date, end_date |-> end_date],
          get_values_by_range(files, name, start_date, end_date))

NextHistorical ==
    \/ GetLatestValue("cotton_price")
    \/ \E d \in QueryDates : GetValueByDate("cotton_price", d)
    \/ \E d1, d2 \in QueryDates : GetValuesByRange("cotton_price", d1, d2)

SpecHistorical == InitHistorical /\ [][NextHistorical]_vars

\* the rows of a registered dataset's historical file
RowsOf(name) == files[DATASET_MAPPING[name]].historical.rows

IsError(payload, kind) ==
    /\ "success" \in DOMAIN payload
    /\ payload.success = FALSE
    /\ payload.error = kind

\* C6: on a dataset with observations, get_value_by_date(d) ends in exactly
\* one of four ways: d before the first date gives date_out_of_range with
\* suggested_date the first date, d after the last date the same with the
\* last date, d inside with no observation gives date_not_found, otherwise
\* the value of an observation dated d; every error carries the valid range.
C6_ValueByDateOutcomes ==
    (call.op = "get_value_by_date" /\ RowsOf(call.dataset_name) # <<>>) =>
        LET rows == RowsOf(call.dataset_name)
            lo == SetMin(Periods(rows))
            hi == SetMax(Periods(rows))
            d == call.date
        IN /\ ret.kind = "return"
           /\ IF d < lo
              THEN /\ IsError(ret.val, "date_out_of_range")
                   /\ ret.val.suggested_date = lo
                   /\ ret.val.available_range = [start |-> lo, end |-> hi]
              ELSE IF d > hi
              THEN /\ IsError(ret.val, "date_out_of_range")
                   /\ ret.val.suggested_date = hi
                   /\ ret.val.available_range = [start |-> lo, end |-> hi]
              ELSE IF d \notin Periods(rows)
              THEN /\ IsError(ret.val, "date_not_found")
                   /\ ret.val.available_range = [start |-> lo, end |-> hi]
              ELSE /\ DOMAIN ret.val = {"date", "value"}
                   /\ ret.val.date = d
                   /\ \E i \in 1..Len(rows) :
                         rows[i].Period = d /\ rows[i].Value = ret.val.value

\* a date inside the range with no observation was reported as not found
C6_Witness ==
    /\ call.op = "get_value_by_date"
    /\ RowsOf(call.dataset_name) # <<>>
    /\ call.date > SetMin(Periods(RowsOf(call.dataset_name)))
    /\ call.date < SetMax(Periods(RowsOf(call.dataset_name)))
    /\ IsError(ret.val, "date_not_found")

\* C7: get_values_by_range returns date_range_out_of_bounds whenever start
\* or end lies outside the observed range, with a suggested_range whose two
\* endpoints lie inside it; with both inside it returns exactly the
\* observations from start to end, in stored order.
C7_RangeErrorsAndClipping ==
    (call.op = "get_values_by_range" /\ RowsOf(call.dataset_name) # <<>>) =>
        LET rows == RowsOf(call.dataset_name)
            lo == SetMin(Periods(rows))
            hi == SetMax(Periods(rows))
            inside(d) == lo <= d /\ d <= hi
        IN /\ ret.kind = "return"
           /\ IF ~inside(call.start_date) \/ ~inside(call.end_date)
              THEN /\ IsError(ret.val, "date_range_out_of_bounds")
                   /\ inside(ret.val.suggested_range.start)
                   /\ inside(ret.val.suggested_range.end)
              ELSE /\ DOMAIN ret.val = {"list"}
                   /\ LET sel == SelectRows(rows, call.start_date, call.end_date) IN
                      ret.val.list = [i \in 1..Len(sel) |->
                                         [date |-> sel[i].Period,
                                          value |-> sel[i].Value]]


---------------------------------------------------------------------------
(* Forecasts by horizon over series of every length *)

MaxHorizon == 3

HorizonDates == 1..MaxHorizon

MedianValues == {20, 21}

\* the months_ahead arguments: negative, zero, inside and past every series
HorizonArgs == (0 - MaxHorizon)..(MaxHorizon + 1)

\* forecast files the loader accepts: a median for each of one or more dates
MedianFiles ==
    UNION {{ForecastFile(TRUE, [d \in D |-> Entry([q \in {"0.5"} |-> m[d]])])
               : m \in [D -> MedianValues]}
              : D \in (SUBSET HorizonDates) \ {{}}}

InitHorizon ==
    /\ \E f \in MedianFiles :
          files = DiskWith("cotton_price", [GoodFolder EXCEPT !.forecast = f])
    /\ loader = NewLoader
    /\ call = [op |-> "init"]
    /\ ret = Return(None)
    /\ io = <<>>
    /\ qloader = NewLoader

GetForecast(name, months_ahead) ==
    Query([op |-> "get_forecast", dataset_name |-> name,
           months_ahead |-> months_ahead],
          get_forecast(files, name, months_ahead))

GetAllForecasts(name) ==
    Query([op |-> "get_all_forecasts", dataset_name |-> name],
          get_all_forecasts(files, name))

NextHorizon ==
    \/ \E k \in HorizonArgs : GetForecast("cotton_price", k)
    \/ GetAllForecasts("cotton_price")

SpecHorizon == InitHorizon /\ [][NextHorizon]_vars

\* the "forecast_series" object of a registered dataset's forecast file
SeriesOf(name) == files[DATASET_MAPPING[name]].forecast.series

\* C8: get_forecast(k) counts horizons from 1: on a forecast of L dates,
\* 1 <= k <= L gives the k-th date in ascending order with its median; k < 1
\* and k > L give forecast_out_of_range carrying max_horizon = L.
C8_HorizonOneIndexed ==
    call.op = "get_forecast" =>
        LET series == SeriesOf(call.dataset_name)
            dates == Sorted(DOMAIN series)
            L == Cardinality(DOMAIN series)
            k == call.months_ahead
        IN /\ ret.kind = "return"
           /\ IF 1 <= k /\ k <= L
              THEN ret.val = [date |-> dates[k],
                              forecast_value |-> series[dates[k]].qf["0.5"]]
              ELSE /\ IsError(ret.val, "forecast_out_of_range")
                   /\ ret.val.max_horizon = L

\* months_ahead = 0 on a forecast with at least two dates was refused
C8_Witness ==
    /\ call.op = "get_forecast"
    /\ call.months_ahead = 0
    /\ Cardinality(DOMAIN SeriesOf(call.dataset_name)) >= 2
    /\ ret.kind = "return"
    /\ IsError(ret.val, "forecast_out_of_range")
    /\ ret.val.max_horizon = Cardinality(DOMAIN SeriesOf(call.dataset_name))


---------------------------------------------------------------------------
(* Every query function, called with every kind of dataset name *)

\* five bands around the median, two dates with a gap between them
BandedForecast(lo15) ==
    ForecastFile(TRUE,
        [d \in {5, 7} |->
            Entry([q \in {"0.05", "0.15", "0.5", "0.85", "0.95"} |->
                      CASE q = "0.05" -> d + 1
                        [] q = "0.15" -> d + lo15
                        [] q = "0.5" -> d + 5
                        [] q = "0.85" -> d + 7
                        [] q = "0.95" -> d + 9])])

\* the forecast files of the queried dataset: the three bands of the sample
\* data, five ordered bands, five bands whose 0.15 value lies above the
\* median, and no file
QueryForecasts ==
    {GoodForecast, BandedForecast(3), BandedForecast(6), Missing}

QueryTables == {GoodCsv, Missing}

HistoryDates == {1, 3, 5}

ForecastDates == {4, 5, 6, 8}

\* optional start_date / end_date pairs: both omitted, or both given
OptionalRanges ==
    {<<<<>>, <<>>>>} \cup {<<<<a>>, <<b>>>> : a \in {1, 2}, b \in {3, 5}}

\* the queried dataset, a dataset left as the sample data, an unknown name
QueryNames == {"cotton_price", "energy_futures", "nonexistent_dataset"}

InitQueries ==
    /\ \E h \in QueryTables, f \in QueryForecasts :
          files = DiskWith("cotton_price",
                      [GoodFolder EXCEPT !.historical = h, !.forecast = f])
    /\ loader = NewLoader
    /\ call = [op |-> "init"]
    /\ ret = Return(None)
    /\ io = <<>>
    /\ qloader = NewLoader

CalculatePercentageChange(name, start_date, end_date) ==
    Query([op |-> "calculate_percentage_change", dataset_name |-> name,
           start_date |-> start_date, end_date |-> end_date],
          calculate_percentage_change(files, name, start_date, end_date))

GetTrendDirection(name, start_date, end_date) ==
    Query([op |-> "get_trend_direction", dataset_name |-> name,
           start_date |-> start_date, end_date |-> end_date],
          get_trend_direction(files, name, start_date, end_date))

FindPeak(name, start_date, end_date) ==
    Query([op |-> "find_peak", dataset_name |-> name,
           start_date |-> start_date, end_date |-> end_date],
          find_peak(files, name, start_date, end_date))

FindValley(name, start_date, end_date) ==
    Query([op |-> "find_valley", dataset_name |-> name,
           start_date |-> start_date, end_date |-> end_date],
          find_valley(files, name, start_date, end_date))

FindPeakAndValley(name, start_date, end_date) ==
    Query([op |-> "find_peak_and_valley", dataset_name |-> name,
           start_date |-> start_date, end_date |-> end_date],
          find_peak_and_valley(files, name, start_date, end_date))

CalculateMovingAverage(name, window_size, start_date, end_date) ==
    Query([op |-> "calculate_moving_average", dataset_name |-> name,
           window_size |-> window_size,
           start_date |-> start_date, end_date |-> end_date],
          calculate_moving_average(files, name, window_size, start_date,
                                   end_date))

GetForecastWithQuantiles(name, months_ahead) ==
    Query([op |-> "get_forecast_with_quantiles", dataset_name |-> name,
           months_ahead |-> months_ahead],
          get_forecast_with_quantiles(files, name, months_ahead))

GetForecastByDate(name, date) ==
    Query([op |-> "get_forecast_by_date", dataset_name |-> name, date |-> date],
          get_forecast_by_date(files, name, date))

GetQuantileForecast(name, date, quantile) ==
    Query([op |-> "get_quantile_forecast", dataset_name |-> name,
           date |-> date, quantile |-> quantile],
          get_quantile_forecast(files, name, date, quantile))

GetConfidenceInterval(name, date, confidence_level) ==
    Query([op |-> "get_confidence_interval", dataset_name |-> name,
           date |-> date, confidence_level |-> confidence_level],
          get_confidence_interval(files, name, date, confidence_level))

CompareCurrentToForecast(name) ==
    Query([op |-> "compare_current_to_forecast", dataset_name |-> name],
          compare_current_to_forecast(files, name))

AnalyzeForecastTrend(name, months_ahead) ==
    Query([op |-> "analyze_forecast_trend", dataset_name |-> name,
           months_ahead |-> months_ahead],
          analyze_forecast_trend(files, name, months_ahead))

GetTopDrivers(name, top_n) ==
    Query([op |-> "get_top_drivers", dataset_name |-> name, top_n |-> top_n],
          get_top_drivers(files, name, top_n))

NextQueries ==
    \E name \in QueryNames :
        \/ GetLatestValue(name)
        \/ \E d \in HistoryDates : GetValueByDate(name, d)
        \/ \E d1, d2 \in HistoryDates : GetValuesByRange(name, d1, d2)
        \/ \E d1, d2 \in HistoryDates : CalculatePercentageChange(name, d1, d2)
        \/ \E d1, d2 \in HistoryDates : GetTrendDirection(name, d1, d2)
        \/ \E r \in OptionalRanges : FindPeak(name, r[1], r[2])
        \/ \E r \in OptionalRanges : FindValley(name, r[1], r[2])
        \/ \E r \in OptionalRanges : FindPeakAndValley(name, r[1], r[2])
        \/ \E r \in OptionalRanges : CalculateMovingAverage(name, 2, r[1], r[2])
        \/ \E k \in 0..3 : GetForecast(name, k)
        \/ \E k \in 0..3 : GetForecastWithQuantiles(name, k)
        \/ \E d \in ForecastDates : GetForecastByDate(name, d)
        \/ GetAllForecasts(name)
        \/ \E d \in ForecastDates, q \in {15, 50} :
              GetQuantileForecast(name, d, q)
        \/ \E d \in ForecastDates, level \in {80, 90, 95} :
              GetConfidenceInterval(name, d, level)
        \/ CompareCurrentToForecast(name)
        \/ \E k \in 1..3 : AnalyzeForecastTrend(name, k)
        \/ \E n \in {1, 5} : GetTopDrivers(name, n)

SpecQueries == InitQueries /\ [][NextQueries]_vars


\* what a load of a fresh DataLoader caches for a dataset: the object as it
\* is when first cached
FirstCached(out) == out.loader.heap[out.res.val]

\* the forecast a fresh DataLoader accepts for a name, if it accepts one
Accepted(name) ==
    LET out == load_forecast(NewLoader, files, name) IN
    out.res.kind = "return" /\ out.res.val # None

BandsOf(name) ==
    FirstCached(load_forecast(NewLoader, files, name)).quantile_forecast

\* C1: a query function called with a name outside the registry (and not
\* refused for another argument before any data is looked up) ends with the
\* dataset_not_found payload or with DatasetNotFoundError, never with a
\* TypeError, KeyError or AttributeError.
C1_UnknownNameTypedNotFound ==
    (/\ call.op # "init"
     /\ call.dataset_name \notin KnownNames
     /\ ~(call.op = "get_confidence_interval"
          /\ call.confidence_level \notin DOMAIN quantile_map)) =>
        \/ ret.kind = "return" /\ IsError(ret.val, "dataset_not_found")
        \/ ret = Raise("DatasetNotFoundError")

\* C4: after any query returns, every object in the cache of the DataLoader
\* it used has the content it had when it was first cached: the historical
\* table its columns and rows, the forecast and driver objects their content.
C4_QueriesLeaveCacheUntouched ==
    \A name \in KnownNames :
        /\ (name \o "_historical") \in DOMAIN qloader.cache =>
              qloader.heap[qloader.cache[name \o "_historical"]]
                  = FirstCached(load_historical(NewLoader, files, name))
        /\ (name \o "_forecast") \in DOMAIN qloader.cache =>
              qloader.heap[qloader.cache[name \o "_forecast"]]
                  = FirstCached(load_forecast(NewLoader, files, name))
        /\ name \in DOMAIN qloader.drivers_cache =>
              qloader.heap[qloader.drivers_cache[name]]
                  = FirstCached(load_drivers(NewLoader, files, name))

\* C9: on a dataset whose forecast loads, get_forecast_by_date,
\* get_quantile_forecast and get_confidence_interval answer a date that is
\* not in the forecast series, and a quantile band the forecast lacks, with
\* a payload whose success is false; none of them raises.
C9_AbsentDateOrBandIsPayload ==
    (/\ call.op \in {"get_forecast_by_date", "get_quantile_forecast",
                     "get_confidence_interval"}
     /\ call.dataset_name \in KnownNames
     /\ Accepted(call.dataset_name)) =>
        LET bands == BandsOf(call.dataset_name)
            asked ==
                IF call.op = "get_quantile_forecast"
                THEN {call.quantile}
                ELSE IF call.op = "get_confidence_interval"
                        /\ call.confidence_level \in DOMAIN quantile_map
                THEN {quantile_map[call.confidence_level][1],
                      quantile_map[call.confidence_level][2], 50}
                ELSE {}
            absentDate == call.date \notin DOMAIN SeriesOf(call.dataset_name)
            missingBand == \E q \in asked : QuantileKey(q) \notin DOMAIN bands
        IN (absentDate \/ missingBand) =>
              /\ ret.kind = "return"
              /\ "success" \in DOMAIN ret.val
              /\ ret.val.success = FALSE

\* C10: get_confidence_interval refuses every level other than 80 and 90
\* with invalid_confidence_level and available_levels [80, 90], reading no
\* file; for level 80 or 90, a forecast the loader accepts that has the
\* level's two bands, and a date of its series, it returns lower_bound,
\* median and upper_bound with lower_bound <= median <= upper_bound.
C10_ConfidenceIntervalOrdered ==
    call.op = "get_confidence_interval" =>
        IF call.confidence_level \notin {80, 90}
        THEN /\ ret.kind = "return"
             /\ IsError(ret.val, "invalid_confidence_level")
             /\ ret.val.available_levels = <<80, 90>>
             /\ io = <<>>
        ELSE (/\ call.dataset_name \in KnownNames
              /\ Accepted(call.dataset_name)
              /\ \A i \in {1, 2} :
                    QuantileKey(quantile_map[call.confidence_level][i])
                        \in DOMAIN BandsOf(call.dataset_name)
              /\ call.date \in DOMAIN SeriesOf(call.dataset_name)) =>
                 /\ ret.kind = "return"
                 /\ {"lower_bound", "median", "upper_bound"} \subseteq DOMAIN ret.val
                 /\ ret.val.lower_bound <= ret.val.median
                 /\ ret.val.median <= ret.val.upper_bound


---------------------------------------------------------------------------
(* Percentage change and trend direction over tables of every sign *)

MaxTrendRows == 2

TrendTableDates == {2, 4}

TrendQueryDates == {1, 2, 3, 4}

\* negative, zero, positive, and two large values a hair apart
TrendValues == {0 - 10, 0, 10, 100000, 100001}

TrendTables ==
    UNION {[1..n -> {Row(p, v) : p \in TrendTableDates, v \in TrendValues}]
              : n \in 0..MaxTrendRows}

InitTrend ==
    /\ \E rows \in TrendTables :
          files = DiskWith("cotton_price",
                      [GoodFolder EXCEPT !.historical =
                           CsvFile(<<"Period", "Value">>, rows)])
    /\ loader = NewLoader
    /\ call = [op |-> "init"]
    /\ ret = Return(None)
    /\ io = <<>>
    /\ qloader = NewLoader

NextTrend ==
    \E d1, d2 \in TrendQueryDates :
        \/ CalculatePercentageChange("cotton_price", d1, d2)
        \/ GetTrendDirection("cotton_price", d1, d2)

SpecTrend == InitTrend /\ [][NextTrend]_vars

\* what calculate_percentage_change answers for the input of the last call
ChangeOfCall ==
    calculate_percentage_change(files, call.dataset_name, call.start_date,
                                call.end_date).res

\* the answer carries a percentage_change
ReportsChange(r) == r.kind = "return" /\ "percentage_change" \in DOMAIN r.val

\* C11: for every input, get_trend_direction and calculate_percentage_change
\* agree: get_trend_direction says increasing, decreasing or stable exactly
\* when the reported percentage_change, (end - start) / start * 100 rounded
\* to 2 decimals, is > 0, < 0 or = 0; on an input for which no percentage
\* change is reported (dates out of range or absent, start value 0) it
\* yields no direction.
C11_TrendAgreesWithChange ==
    /\ call.op = "get_trend_direction" =>
          LET pc == ChangeOfCall IN
          IF ReportsChange(pc)
          THEN /\ ret.kind = "return"
               /\ (ret.val.str = "increasing") = (pc.val.percentage_change > 0)
               /\ (ret.val.str = "decreasing") = (pc.val.percentage_change < 0)
               /\ (ret.val.str = "stable") = (pc.val.percentage_change = 0)
          ELSE ret.kind = "raise"
    /\ (call.op = "calculate_percentage_change" /\ ReportsChange(ret)) =>
          /\ ret.val.start_value # 0
          /\ ret.val.percentage_change =
                RoundDiv(10000 * (ret.val.end_value - ret.val.start_value),
                         ret.val.start_value)
          /\ \E i, j \in 1..Len(RowsOf(call.dataset_name)) :
                /\ RowsOf(call.dataset_name)[i] =
                       Row(call.start_date, ret.val.start_value)
                /\ RowsOf(call.dataset_name)[j] =
                       Row(call.end_date, ret.val.end_value)

\* a rise too small to show in 2 decimals was called stable
C11_Witness ==
    /\ call.op = "get_trend_direction"
    /\ ret = Return([str |-> "stable"])
    /\ ReportsChange(ChangeOfCall)
    /\ ChangeOfCall.val.end_value > ChangeOfCall.val.start_value


---------------------------------------------------------------------------
(* Peaks and valleys under every kind of date restriction *)

\* an optional date argument: omitted, or one of the dates of the tables
OptionalDates == {<<>>} \cup {<<d>> : d \in TableDates}

InitPeaks == InitHistorical

NextPeaks ==
    \E start_date, end_date \in OptionalDates :
        \/ FindPeak("cotton_price", start_date, end_date)
        \/ FindValley("cotton_price", start_date, end_date)
        \/ FindPeakAndValley("cotton_price", start_date, end_date)

SpecPeaks == InitPeaks /\ [][NextPeaks]_vars

\* C12: under any date restriction (none, start only, end only, both) that
\* leaves at least one observation, find_peak_and_valley returns as peak an
\* observation of maximum value and as valley one of minimum value among
\* those inside the restriction: both dates lie inside the restriction and
\* peak.value >= valley.value.
C12_PeakAndValleyInsideRestriction ==
    call.op = "find_peak_and_valley" =>
        LET rows == RowsOf(call.dataset_name)
            inside(d) == /\ call.start_date = <<>> \/ d >= call.start_date[1]
                         /\ call.end_date = <<>> \/ d <= call.end_date[1]
            kept == {i \in 1..Len(rows) : inside(rows[i].Period)}
            values == {rows[i].Value : i \in kept}
        IN kept # {} =>
              /\ ret.kind = "return"
              /\ \E i \in kept : /\ rows[i].Period = ret.val.peak.date
                                 /\ rows[i].Value = ret.val.peak.value
              /\ \E i \in kept : /\ rows[i].Period = ret.val.valley.date
                                 /\ rows[i].Value = ret.val.valley.value
              /\ ret.val.peak.value = SetMax(values)
              /\ ret.val.valley.value = SetMin(values)
              /\ ret.val.peak.value >= ret.val.valley.value


---------------------------------------------------------------------------
(* Driver queries over driver files of every shape *)

MaxDrivers == 2

\* a driver entry whose direction statistic is a number
Signed(id, name, mean, dirn) ==
    DriverEntry(id, FALSE, DriverInfo(name, mean, dirn, 3))

\* the entries a drivers.json is made of: the target with and without
\* importance data, two drivers of equal importance, a driver whose
\* direction is 0, one whose direction is null, one with no direction
DriverPool ==
    {DriverEntry("target_0", TRUE, [driver_name |-> "Target"]),
     DriverEntry("target_1", TRUE, DriverInfo("Target Lag", 50, 1, 1)),
     Signed("driver_1", "Demand Index", 20, 1),
     Signed("driver_2", "Oil Price", 20, 0 - 1),
     Signed("driver_3", "Interest Rate", 35, 0),
     DriverEntry("driver_4", FALSE,
         [DriverInfo("Freight Cost", 10, 1, 3)
             EXCEPT !.direction = [overall |-> [mean |-> JNull]]]),
     DriverEntry("driver_5", FALSE,
         [driver_name |-> "Weather",
          importance |-> [overall |-> [mean |-> JNum(10), max |-> JNum(11),
                                       min |-> JNum(9)]]])}

DriverNames ==
    {e.info.driver_name : e \in DriverPool} \cup {"Nonexistent Driver"}

\* drivers.json files: up to MaxDrivers different entries in any order
DriverFiles ==
    {DriversFile(es) :
        es \in {q \in UNION {[1..n -> DriverPool] : n \in 0..MaxDrivers} :
                   \A i, j \in 1..Len(q) : i # j => q[i] # q[j]}}

TopNs == (0 - 1)..(MaxDrivers + 1)

InitDrivers ==
    /\ \E f \in DriverFiles :
          files = DiskWith("cotton_price", [GoodFolder EXCEPT !.drivers = f])
    /\ loader = NewLoader
    /\ call = [op |-> "init"]
    /\ ret = Return(None)
    /\ io = <<>>
    /\ qloader = NewLoader

GetDriverDetails(name, driver_name) ==
    Query([op |-> "get_driver_details", dataset_name |-> name,
           driver_name |-> driver_name],
          get_driver_details(files, name, driver_name))

AnalyzeMarketDrivers(name, top_n, driver_name) ==
    Query([op |-> "analyze_market_drivers", dataset_name |-> name,
           top_n |-> top_n, driver_name |-> driver_name],
          analyze_market_drivers(files, name, top_n, driver_name))

QueryDriversParsed(name) ==
    Query([op |-> "load_drivers_parsed", dataset_name |-> name],
          load_drivers_parsed(NewLoader, files, name))

NextDrivers ==
    \/ \E n \in TopNs : GetTopDrivers("cotton_price", n)
    \/ \E dn \in DriverNames : GetDriverDetails("cotton_price", dn)
    \/ \E dn \in DriverNames :
          AnalyzeMarketDrivers("cotton_price", 5, <<dn>>)
    \/ AnalyzeMarketDrivers("cotton_price", 5, <<>>)
    \/ QueryDriversParsed("cotton_price")

SpecDrivers == InitDrivers /\ [][NextDrivers]_vars

\* the entries of a registered dataset's drivers file, in file order
EntriesOf(name) == files[DATASET_MAPPING[name]].drivers.entries

\* C13: for any integer top_n get_top_drivers returns at most top_n drivers
\* (none when top_n is 0 or negative), sorted by importance_mean descending,
\* drivers of equal importance in file order; an entry without importance
\* data or with a target_ id never appears.
C13_TopDriversRanked ==
    call.op = "get_top_drivers" =>
        LET entries == EntriesOf(call.dataset_name)
            eligible == {i \in 1..Len(entries) :
                            /\ ~entries[i].target
                            /\ "importance" \in DOMAIN entries[i].info}
            pos(name) == CHOOSE i \in 1..Len(entries) :
                             /\ "driver_name" \in DOMAIN entries[i].info
                             /\ entries[i].info.driver_name = name
        IN /\ ret.kind = "return"
           /\ LET list == ret.val.list IN
              /\ Len(list) <= Max2(call.top_n, 0)
              /\ \A k \in 1..Len(list) : pos(list[k].name) \in eligible
              /\ \A k \in 1..(Len(list) - 1) :
                    \/ list[k].importance_mean.n > list[k + 1].importance_mean.n
                    \/ /\ list[k].importance_mean.n = list[k + 1].importance_mean.n
                       /\ pos(list[k].name) < pos(list[k + 1].name)


\* the driver_name the last call asked for
AskedDriver ==
    IF call.op = "analyze_market_drivers" THEN call.driver_name[1]
    ELSE call.driver_name

\* the entries of the queried file that carry the asked name
EntriesNamed(name) ==
    {i \in 1..Len(EntriesOf(call.dataset_name)) :
        /\ "driver_name" \in DOMAIN EntriesOf(call.dataset_name)[i].info
        /\ EntriesOf(call.dataset_name)[i].info.driver_name = name}

\* C14: get_driver_details with a driver_name that matches no driver of a
\* known dataset returns a payload with success = false and the list
\* available_drivers; it does not raise, and analyze_market_drivers passes
\* the payload on.
C14_UnknownDriverIsPayload ==
    (/\ \/ call.op = "get_driver_details"
        \/ call.op = "analyze_market_drivers" /\ call.driver_name # <<>>
     /\ EntriesNamed(AskedDriver) = {}) =>
        /\ ret.kind = "return"
        /\ "success" \in DOMAIN ret.val
        /\ ret.val.success = FALSE
        /\ "available_drivers" \in DOMAIN ret.val

\* what load_drivers_parsed makes of the queried dataset's file
ParsedOfCall ==
    LET out == load_drivers_parsed(NewLoader, files, call.dataset_name)
    IN out.loader.heap[out.res.val].items

\* C15: direction is positive exactly when the overall mean direction value
\* is >= 0 and negative when it is < 0, and get_driver_details and
\* load_drivers_parsed give every driver entry the same direction, also when
\* its direction value is 0, null or missing.
C15_OneDirectionConvention ==
    (/\ call.op = "get_driver_details"
     /\ EntriesNamed(AskedDriver) # {}
     /\ ret.kind = "return") =>
        LET info == EntriesOf(call.dataset_name)
                        [SetMin(EntriesNamed(AskedDriver))].info
            mean == Get(Get(Get(info, "direction", EmptyDict),
                            "overall", EmptyDict), "mean", JNull)
            parsed == ParsedOfCall
        IN /\ mean # JNull =>
                 ret.val.direction = (IF mean.n >= 0 THEN "positive"
                                      ELSE "negative")
           /\ \A k \in 1..Len(parsed) :
                 parsed[k].driver_name = AskedDriver =>
                     parsed[k].direction = ret.val.direction


---------------------------------------------------------------------------
(* Comparing lists of datasets whose dates overlap in every way *)

MaxListLen == 2

\* historical tables: empty, one date, another date, both out of order, a
\* date held twice
CompareTables ==
    {<<>>, <<Row(2, 10)>>, <<Row(3, 12)>>, <<Row(3, 12), Row(2, 10)>>,
     <<Row(2, 10), Row(2, 12)>>}

NameLists == UNION {[1..n -> KnownNames] : n \in 1..MaxListLen}

InitCompare ==
    /\ \E t \in [KnownNames -> CompareTables] :
          files = [f \in Folders |->
                      LET name == CHOOSE n \in KnownNames : DATASET_MAPPING[n] = f
                      IN [GoodFolder EXCEPT !.historical =
                             CsvFile(<<"Period", "Value">>, t[name])]]
    /\ loader = NewLoader
    /\ call = [op |-> "init"]
    /\ ret = Return(None)
    /\ io = <<>>
    /\ qloader = NewLoader

CompareDatasets(dataset_names) ==
    Query([op |-> "compare_datasets", dataset_names |-> dataset_names],
          compare_datasets(files, dataset_names))

NextCompare == \E names \in NameLists : CompareDatasets(names)

SpecCompare == InitCompare /\ [][NextCompare]_vars

\* the dates that occur in every dataset of a list
SharedDates(names) ==
    {d \in Periods(RowsOf(names[1])) :
        \A i \in 1..Len(names) : d \in Periods(RowsOf(names[i]))}

---------------------------------------------------------------------------
(* Forward-buy recommendations and impact analysis around the thresholds *)
(* Prices are in hundredths of a currency unit: 100000 is 1000.00.         *)

\* the latest historical price of the queried dataset
RecommendCurrent == 100000

\* forecast medians: no change, changes just inside, on and just outside
\* the 0.5% and 2% thresholds, and changes beyond 5%, in both directions
RecommendMedians ==
    {100000, 100400, 100500, 100504, 101000, 102000, 102004, 103000, 106000,
     99000, 98000, 97996, 97000, 94000}

\* the 0.1 band of a forecast with median f: below the median, or above it
RecommendLows(f) == {f - 3000, f + 1000}

\* one forecast date with the 0.1, 0.5 and 0.9 bands
RecommendForecast(lo, f) ==
    ForecastFile(TRUE,
        [d \in {5} |->
            Entry([q \in {"0.1", "0.5", "0.9"} |->
                      IF q = "0.1" THEN lo ELSE IF q = "0.5" THEN f
                      ELSE f + 3000])])

\* the queried dataset and a dataset left as the sample data
RecommendNames == {"cotton_price", "energy_futures"}

RecommendMonths == {1, 2}

Quantities == {1000, 2000}

InitRecommend ==
    /\ \E f \in RecommendMedians : \E lo \in RecommendLows(f) :
          files = DiskWith("cotton_price",
                      [GoodFolder EXCEPT
                           !.historical = CsvFile(<<"Period", "Value">>,
                                              <<Row(2, RecommendCurrent)>>),
                           !.forecast = RecommendForecast(lo, f)])
    /\ loader = NewLoader
    /\ call = [op |-> "init"]
    /\ ret = Return(None)
    /\ io = <<>>
    /\ qloader = NewLoader

RecommendForwardBuy(name, months_ahead, quantity) ==
    Query([op |-> "recommend_forward_buy", dataset_name |-> name,
           months_ahead |-> months_ahead, quantity |-> quantity],
          recommend_forward_buy(files, name, months_ahead, quantity))

CalculateImpactAnalysis(name, months_ahead, quantity) ==
    Query([op |-> "calculate_impact_analysis", dataset_name |-> name,
           months_ahead |-> months_ahead, quantity |-> quantity],
          calculate_impact_analysis(files, name, months_ahead, quantity))

NextRecommend ==
    \E name \in RecommendNames, m \in RecommendMonths, q \in Quantities :
        \/ RecommendForwardBuy(name, m, q)
        \/ CalculateImpactAnalysis(name, m, q)

SpecRecommend == InitRecommend /\ [][NextRecommend]_vars

\* C17: the recommendation of recommend_forward_buy is determined by the
\* percentage change p the same result reports as price_change_pct: buy_now
\* if and only if p > 2, wait if and only if p < -2, hedge if and only if
\* 0.5 < |p| <= 2, and monitor if and only if |p| <= 0.5.
C17_RecommendationFollowsReportedChange ==
    (call.op = "recommend_forward_buy" /\ ret.kind = "return") =>
        LET p == ret.val.price_change_pct
            r == ret.val.recommendation
        IN /\ (r = "buy_now") <=> (p > 200)
           /\ (r = "wait") <=> (p < -200)
           /\ (r = "hedge") <=> (50 < Abs(p) /\ Abs(p) <= 200)
           /\ (r = "monitor") <=> (Abs(p) <= 50)

\* C18: for every outcome of recommend_forward_buy (buy_now, wait, hedge and
\* monitor) the reported savings equals |forecast price - current price|
\* times the quantity, so that for the same dataset and horizon the savings
\* at quantity 2000 is twice the savings at quantity 1000.
C18_SavingsIsChangeTimesQuantity ==
    (call.op = "recommend_forward_buy" /\ ret.kind = "return") =>
        /\ ret.val.savings =
               Abs(ret.val.forecast_price - ret.val.current_price)
                   * call.quantity
        /\ LET at(q) == recommend_forward_buy(files, call.dataset_name,
                                              call.months_ahead, q).res.val
           IN at(2000).savings = 2 * at(1000).savings

\* C19: for a forecast the loader accepts that has the 0.1, 0.5 and 0.9
\* bands, calculate_impact_analysis orders its scenarios by price direction:
\* best <= expected <= worst forecast price when price_direction is rising,
\* best >= expected >= worst when it is falling.
C19_ScenariosOrderedByDirection ==
    (call.op = "calculate_impact_analysis" /\ ret.kind = "return") =>
        LET best == ret.val.best_case.forecast_price
            expected == ret.val.expected.forecast_price
            worst == ret.val.worst_case.forecast_price
        IN IF ret.val.price_direction = "rising"
           THEN best <= expected /\ expected <= worst
           ELSE best >= expected /\ expected >= worst


---------------------------------------------------------------------------
(* Multi-commodity scenarios over lists with repeated datasets *)

\* forecast medians of a varied dataset: monitor, hedge, buy_now at 3%, at
\* exactly 5% and at 6%, wait at 3% and at 7%
ScenarioMedians == {100000, 101000, 103000, 105000, 106000, 97000, 93000}

\* the datasets whose forecast varies; the third is left as the sample data
ScenarioVaried == {"cotton_price", "cotton_export"}

\* the requested lists: empty, or up to MaxListLen known names, repeats
\* included
ScenarioLists == {<<>>} \cup NameLists

InitScenario ==
    /\ \E m \in [ScenarioVaried -> ScenarioMedians] :
          files = [f \in Folders |->
                      LET name == CHOOSE n \in KnownNames : DATASET_MAPPING[n] = f
                      IN IF name \in ScenarioVaried
                         THEN [GoodFolder EXCEPT
                                  !.historical = CsvFile(<<"Period", "Value">>,
                                                     <<Row(2, RecommendCurrent)>>),
                                  !.forecast = RecommendForecast(m[name] - 3000,
                                                                 m[name])]
                         ELSE GoodFolder]
    /\ loader = NewLoader
    /\ call = [op |-> "init"]
    /\ ret = Return(None)
    /\ io = <<>>
    /\ qloader = NewLoader

AnalyzeMultiCommodityScenario(dataset_names, months_ahead, quantity) ==
    Query([op |-> "analyze_multi_commodity_scenario",
           dataset_names |-> dataset_names, months_ahead |-> months_ahead,
           quantity |-> quantity],
          analyze_multi_commodity_scenario(files, dataset_names, months_ahead,
                                           quantity))

NextScenario ==
    \E names \in ScenarioLists, q \in Quantities :
        AnalyzeMultiCommodityScenario(names, 1, q)

SpecScenario == InitScenario /\ [][NextScenario]_vars

\* the urgency the rule gives an action: 3 for buy_now, 2 for wait, 1 for
\* monitor and hedge, plus 1 when the reported change is beyond 5%
RuleUrgency(action) ==
    (CASE action.recommendation = "buy_now" -> 3
       [] action.recommendation = "wait" -> 2
       [] OTHER -> 1)
    + (IF Abs(action.price_change_pct) > 500 THEN 1 ELSE 0)

RECURSIVE SavingsOver(_, _)
\* the sum of the savings of the recommendations held for a set of datasets
SavingsOver(recs, datasets) ==
    IF datasets = {} THEN 0
    ELSE LET d == CHOOSE x \in datasets : TRUE
         IN recs[d].savings + SavingsOver(recs, datasets \ {d})

\* the scores follow the rule, the actions are listed in non-increasing
\* score, and the total is the sum of the savings of the individual
\* recommendations
ScoredOrderedAndSummed ==
    LET actions == ret.val.prioritized_actions
        recs == ret.val.individual_recommendations
    IN /\ \A i \in 1..Len(actions) :
             /\ actions[i].urgency_score = RuleUrgency(actions[i])
             /\ actions[i].recommendation =
                    recs[actions[i].dataset].recommendation
             /\ actions[i].price_change_pct =
                    recs[actions[i].dataset].price_change_pct
             /\ actions[i].savings = recs[actions[i].dataset].savings
       /\ \A i \in 1..Len(actions) - 1 :
             actions[i].urgency_score >= actions[i + 1].urgency_score
       /\ ret.val.total_potential_savings =
              SavingsOver(recs, DOMAIN recs)

---------------------------------------------------------------------------
(* Production sequencing over lists of commodities around the thresholds *)

\* forecast medians of a varied dataset: a fall, no change, rises just above
\* 0%, inside 0..2%, of exactly 2%, just above 2% and of 3%
SequencingMedians == {97000, 100000, 100004, 101000, 102000, 102004, 103000}

InitSequencing ==
    /\ \E m \in [ScenarioVaried -> SequencingMedians] :
          files = [f \in Folders |->
                      LET name == CHOOSE n \in KnownNames : DATASET_MAPPING[n] = f
                      IN IF name \in ScenarioVaried
                         THEN [GoodFolder EXCEPT
                                  !.historical = CsvFile(<<"Period", "Value">>,
                                                     <<Row(2, RecommendCurrent)>>),
                                  !.forecast = RecommendForecast(m[name] - 3000,
                                                                 m[name])]
                         ELSE GoodFolder]
    /\ loader = NewLoader
    /\ call = [op |-> "init"]
    /\ ret = Return(None)
    /\ io = <<>>
    /\ qloader = NewLoader

RecommendProductionSequencing(dataset_names, months_ahead) ==
    Query([op |-> "recommend_production_sequencing",
           dataset_names |-> dataset_names, months_ahead |-> months_ahead],
          recommend_production_sequencing(files, dataset_names, months_ahead))

NextSequencing ==
    \E names \in ScenarioLists : RecommendProductionSequencing(names, 1)

SpecSequencing == InitSequencing /\ [][NextSequencing]_vars

\* C21: in the result of recommend_production_sequencing every commodity's
\* favorability agrees with the price_change_pct reported for it (favorable
\* when <= 0, moderately_favorable when <= 2, unfavorable when > 2, with
\* priority 1, 2, 3); recommended_sequence lists every requested dataset
\* exactly once (once per entry of the list), in non-decreasing priority,
\* numbered 1..n, and datasets of equal priority keep the order in which
\* they were requested.
C21_SequencingFollowsReportedChange ==
    (call.op = "recommend_production_sequencing" /\ ret.kind = "return") =>
        LET analysis == ret.val.commodity_analysis
            sequence == ret.val.recommended_sequence
            names == call.dataset_names
        IN /\ \A i \in 1..Len(analysis) :
                 LET p == analysis[i].price_change_pct IN
                 /\ analysis[i].favorability =
                        IF p <= 0 THEN "favorable"
                        ELSE IF p <= 200 THEN "moderately_favorable"
                        ELSE "unfavorable"
                 /\ analysis[i].priority =
                        IF p <= 0 THEN 1 ELSE IF p <= 200 THEN 2 ELSE 3
           /\ Len(sequence) = Len(analysis)
           /\ \A n \in Range(names) :
                 Cardinality({i \in 1..Len(sequence) :
                                 sequence[i].dataset = n})
                     = Cardinality({i \in 1..Len(names) : names[i] = n})
           /\ \A i \in 1..Len(sequence) :
                 /\ sequence[i].sequence_order = i
                 /\ sequence[i].dataset = analysis[i].dataset
                 /\ sequence[i].dataset \in Range(names)
           /\ \A i \in 1..Len(analysis) - 1 :
                 analysis[i].priority <= analysis[i + 1].priority
           /\ \A i, j \in 1..Len(analysis) :
                 (i < j /\ analysis[i].priority = analysis[j].priority) =>
                     \E a, b \in 1..Len(names) :
                         /\ a <= b
                         /\ names[a] = analysis[i].dataset
                         /\ names[b] = analysis[j].dataset


---------------------------------------------------------------------------
(* Negotiation talking points over driver files of every content *)

InitNegotiation == InitDrivers

NegotiationMonths == {1, 2, 3}

GenerateNegotiationTalkingPoints(name, months_ahead) ==
    Query([op |-> "generate_negotiation_talking_points",
           dataset_name |-> name, months_ahead |-> months_ahead],
          generate_negotiation_talking_points(files, name, months_ahead))

NextNegotiation ==
    \E name \in RecommendNames, m \in NegotiationMonths :
        GenerateNegotiationTalkingPoints(name, m)

SpecNegotiation == InitNegotiation /\ [][NextNegotiation]_vars

\* C22: for every known dataset and valid horizon, whatever its driver file
\* contains (no drivers at all included), generate_negotiation_talking_points
\* returns between 3 and 5 talking points; each has a point text, a citation
\* and a type that is one of fact, supporting_increase,
\* contradicting_increase; the first point is the current-price fact and the
\* second the forecast point.
C22_ThreeToFiveTalkingPoints ==
    (/\ call.op = "generate_negotiation_talking_points"
     /\ call.months_ahead \in
            1..Cardinality(DOMAIN SeriesOf(call.dataset_name))) =>
        /\ ret.kind = "return"
        /\ LET points == ret.val.talking_points IN
           /\ Len(points) >= 3
           /\ Len(points) <= 5
           /\ \A i \in 1..Len(points) :
                 /\ DOMAIN points[i] = {"point", "citation", "type"}
                 /\ points[i].type \in {"fact", "supporting_increase",
                                        "contradicting_increase"}
           /\ points[1].type = "fact"
           /\ points[1].point = "Current market price"
           /\ points[2].point \in {"Forecast shows increase",
                                   "Forecast shows decrease"}


---------------------------------------------------------------------------
(* The agent's data tools, called in every mode *)

\* the date argument of a tool: omitted, a keyword in two spellings, a word
\* that is a keyword of the other tool only, and calendar dates
ToolDates ==
    {<<>>, <<[word |-> "Latest"]>>, <<[word |-> "now"]>>, <<[word |-> "next"]>>}
        \cup {<<[day |-> d]>> : d \in {1, 3, 5}}

\* start_date / end_date: both omitted, one given, both given
ToolRanges ==
    OptionalRanges \cup {<<<<2>>, <<>>>>, <<<<>>, <<3>>>>}

InitTools == InitQueries

QueryHistoricalData(name, date, start_date, end_date) ==
    Query([op |-> "query_historical_data", dataset_name |-> name,
           date |-> date, start_date |-> start_date, end_date |-> end_date],
          query_historical_data(files, name, date, start_date, end_date))

QueryForecastData(name, months_ahead, date) ==
    Query([op |-> "query_forecast_data", dataset_name |-> name,
           months_ahead |-> months_ahead, date |-> date],
          query_forecast_data(files, name, months_ahead, date))

NextTools ==
    \/ \E name \in QueryNames, date \in ToolDates, range \in ToolRanges :
          QueryHistoricalData(name, date, range[1], range[2])
    \/ \E name \in QueryNames, m \in RecommendMonths, date \in ToolDates :
          QueryForecastData(name, m, date)

SpecTools == InitTools /\ [][NextTools]_vars

\* the uniform error payload: success = false, error and message
ErrorShape(payload) ==
    /\ {"success", "error", "message"} \subseteq DOMAIN payload
    /\ payload.success = FALSE

\* what the query function under a query_historical_data call returned
UnderlyingHistorical ==
    IF call.start_date # <<>> /\ call.end_date # <<>>
    THEN get_values_by_range(files, call.dataset_name, call.start_date[1],
                             call.end_date[1]).res
    ELSE IF call.date # <<>>
            /\ ~IsKeyword(call.date, {"latest", "current", "now"})
    THEN get_value_by_date(files, call.dataset_name, DayOf(call.date[1])).res
    ELSE get_latest_value(files, call.dataset_name).res

\* C23: a tool returns a success payload or an error payload whose top level
\* carries success = false, error and message; whenever the underlying query
\* function reports an error, the tool's own result is in the error shape at
\* its top level, in all three modes of query_historical_data (latest,
\* specific date, date range).
C23_ToolErrorsAtTopLevel ==
    (call.op = "query_historical_data" /\ ret.kind = "return") =>
        LET inner == UnderlyingHistorical IN
        (inner.kind = "return" /\ "success" \in DOMAIN inner.val
           /\ ErrorShape(inner.val)) => ErrorShape(ret.val)


---------------------------------------------------------------------------
(* Two callers racing through one load operation on one cold DataLoader    *)
(* Each caller runs the statements of the operation one at a time: the     *)
(* cache check, the look for the file, the read, the cache write. In this  *)
(* scenario call holds the operation and each caller's position and local  *)
(* variables, ret each caller's result, io the reads and writes in the     *)
(* order they happened.                                                    *)

Callers == {"A", "B"}

Pending == [kind |-> "pending"]

RaceOps == {"load_historical", "load_drivers_parsed"}

RaceNames == {"cotton_price", "nonexistent_dataset"}

\* the files of the raced dataset: good, missing, not readable
RaceFolders ==
    [historical : {GoodCsv, Missing, [GoodCsv EXCEPT !.readable = FALSE]},
     forecast : {GoodForecast},
     drivers : {GoodDrivers, Missing, [GoodDrivers EXCEPT !.readable = FALSE]}]

InitRace ==
    /\ \E folder \in RaceFolders : files = DiskWith("cotton_price", folder)
    /\ loader = NewLoader
    /\ \E op \in RaceOps, name \in RaceNames :
          call = [op |-> op, dataset_name |-> name,
                  pc |-> [c \in Callers \cup {"later"} |->
                             IF c = "later" THEN "waiting"
                             ELSE IF op = "load_historical" THEN "check"
                             ELSE "raw_check"],
                  local |-> [c \in Callers |-> None]]
    /\ ret = [c \in Callers \cup {"later"} |-> Pending]
    /\ io = <<>>
    /\ qloader = NewLoader

\* caller c moves to position pc with local variable v
Goto(c, pc, v) ==
    /\ call' = [call EXCEPT !.pc[c] = pc, !.local[c] = v]
    /\ UNCHANGED <<files, qloader>>

\* caller c ends with result r
Finish(c, r) ==
    /\ call' = [call EXCEPT !.pc[c] = "done"]
    /\ ret' = [ret EXCEPT ![c] = r]
    /\ UNCHANGED <<files, qloader>>

Event(c, op) == [caller |-> c, op |-> op]

\* load_drivers: "if dataset_name in self._drivers_cache", then the lookup
\* in DATASET_MAPPING
RawCheck(c) ==
    /\ call.pc[c] = "raw_check"
    /\ IF call.dataset_name \in DOMAIN loader.drivers_cache
       THEN Goto(c, "check", loader.drivers_cache[call.dataset_name])
            /\ UNCHANGED ret
       ELSE IF call.dataset_name \notin DOMAIN DATASET_MAPPING
       THEN Finish(c, Raise("DatasetNotFoundError"))
       ELSE Goto(c, "raw_exists", None) /\ UNCHANGED ret
    /\ UNCHANGED <<loader, io>>

\* load_drivers: "if not file_path.exists()"
RawExists(c) ==
    /\ call.pc[c] = "raw_exists"
    /\ IF ~FileOf(files, call.op, call.dataset_name).exists
       THEN Finish(c, Raise("DataLoadError"))
       ELSE Goto(c, "raw_read", None) /\ UNCHANGED ret
    /\ io' = Append(io, Event(c, "exists"))
    /\ UNCHANGED loader

\* load_drivers: json.load
RawRead(c) ==
    /\ call.pc[c] = "raw_read"
    /\ LET json == FileOf(files, call.op, call.dataset_name) IN
       IF ~json.readable THEN Finish(c, Raise("DataLoadError"))
       ELSE Goto(c, "raw_write", [t |-> "dict", entries |-> json.entries])
            /\ UNCHANGED ret
    /\ io' = Append(io, Event(c, "read"))
    /\ UNCHANGED loader

\* load_drivers: "self._drivers_cache[dataset_name] = data"
RawWrite(c) ==
    /\ call.pc[c] = "raw_write"
    /\ LET ref == NewRef(loader, call.dataset_name \o "_drivers") IN
       /\ loader' = [loader EXCEPT
                        !.drivers_cache = Put(@, call.dataset_name, ref),
                        !.heap = Put(@, ref, call.local[c])]
       /\ Goto(c, "check", ref)
    /\ io' = Append(io, Event(c, "raw_write"))
    /\ UNCHANGED ret

\* "if cache_key in self._cache", then for load_historical the lookup in
\* DATASET_MAPPING
RaceCheck(c) ==
    /\ call.pc[c] = "check"
    /\ LET cache_key == KeyOf(call.op, call.dataset_name) IN
       IF CacheHit(loader, cache_key)
       THEN Finish(c, Return(loader.cache[cache_key]))
       ELSE IF call.op = "load_drivers_parsed"
       THEN Goto(c, "parse", call.local[c]) /\ UNCHANGED ret
       ELSE IF call.dataset_name \notin DOMAIN DATASET_MAPPING
       THEN Finish(c, Return(None))
       ELSE Goto(c, "exists", None) /\ UNCHANGED ret
    /\ UNCHANGED <<loader, io>>

\* load_historical: "if not csv_path.exists()"
RaceExists(c) ==
    /\ call.pc[c] = "exists"
    /\ IF ~FileOf(files, call.op, call.dataset_name).exists
       THEN Finish(c, Return(None))
       ELSE Goto(c, "read", None) /\ UNCHANGED ret
    /\ io' = Append(io, Event(c, "exists"))
    /\ UNCHANGED loader

\* load_historical: pd.read_csv and the check of the columns
RaceRead(c) ==
    /\ call.pc[c] = "read"
    /\ LET csv == FileOf(files, call.op, call.dataset_name) IN
       IF ~csv.readable
          \/ \E col \in {"Period", "Value"} : col \notin Range(csv.columns)
       THEN Finish(c, Raise("DataLoadError"))
       ELSE Goto(c, "write", [t |-> "DataFrame", columns |-> csv.columns,
                              rows |-> csv.rows])
            /\ UNCHANGED ret
    /\ io' = Append(io, Event(c, "read"))
    /\ UNCHANGED loader

\* load_drivers_parsed: the loop over data.items() and the sort, over the
\* entries of RaceFolders, none of which raises
RaceParse(c) ==
    /\ call.pc[c] = "parse"
    /\ Goto(c, "write",
            [t |-> "list",
             items |-> SortByImportance(
                           ParseDrivers(loader.heap[call.local[c]].entries))])
    /\ UNCHANGED <<loader, ret, io>>

\* "self._cache[cache_key] = ..." and the return of the caller's own object
RaceWrite(c) ==
    /\ call.pc[c] = "write"
    /\ LET cache_key == KeyOf(call.op, call.dataset_name) IN
       /\ loader' = Store(loader, cache_key, call.local[c])
       /\ Finish(c, Return(NewRef(loader, cache_key)))
    /\ io' = Append(io, Event(c, "write"))

\* a call made after both callers have returned
LaterCall ==
    /\ \A c \in Callers : call.pc[c] = "done"
    /\ call.pc["later"] = "waiting"
    /\ LET out == IF call.op = "load_historical"
                  THEN load_historical(loader, files, call.dataset_name)
                  ELSE load_drivers_parsed(loader, files, call.dataset_name)
       IN /\ loader' = out.loader
          /\ Finish("later", out.res)
          /\ io' = io \o [i \in 1..Len(out.io) |-> Event("later", out.io[i])]

NextRace ==
    \/ \E c \in Callers :
          \/ RawCheck(c)
          \/ RawExists(c)
          \/ RawRead(c)
          \/ RawWrite(c)
          \/ RaceCheck(c)
          \/ RaceExists(c)
          \/ RaceRead(c)
          \/ RaceParse(c)
          \/ RaceWrite(c)
    \/ LaterCall

SpecRace == InitRace /\ [][NextRace]_vars

\* the value a result stands for: the object behind a reference, None, or
\* the exception
ValueOf(r) ==
    IF r.kind = "raise" THEN r
    ELSE IF r.val = None THEN r
    ELSE Return(loader.heap[r.val])

\* the callers that wrote the cache entry, in the order of their writes
Writers == SelectSeq(io, LAMBDA e : e.op = "write")

\* C24: when two callers run the same load operation for the same dataset
\* on one Loader with a cold cache, then under every interleaving both get
\* value-equal results (the value a load by a fresh Loader gives), the cache
\* ends with one entry for the key, the object of the caller that wrote
\* last, every later call returns that entry, and the entry is never a
\* partial or mismatched one.
C24_RaceIsHarmless ==
    (\A c \in Callers : call.pc[c] = "done") =>
        LET cache_key == KeyOf(call.op, call.dataset_name)
            alone == IF call.op = "load_historical"
                     THEN load_historical(NewLoader, files, call.dataset_name)
                     ELSE load_drivers_parsed(NewLoader, files,
                                              call.dataset_name)
            expected == IF alone.res.kind = "raise" \/ alone.res.val = None
                        THEN alone.res
                        ELSE Return(alone.loader.heap[alone.res.val])
        IN /\ \A c \in Callers : ValueOf(ret[c]) = expected
           /\ IF expected.kind = "return" /\ expected.val # None
              THEN /\ CacheHit(loader, cache_key)
                   /\ Writers # <<>>
                   /\ loader.cache[cache_key]
                          = ret[Writers[Len(Writers)].caller].val
                   /\ Return(loader.heap[loader.cache[cache_key]]) = expected
              ELSE ~CacheHit(loader, cache_key)
           /\ call.pc["later"] = "done" =>
                 /\ ValueOf(ret["later"]) = expected
                 /\ CacheHit(loader, cache_key) =>
                        ret["later"] = Return(loader.cache[cache_key])

\* both callers missed the cold cache, read the file and wrote the entry,
\* B after A; a later call got B's object
C24_Witness ==
    /\ \A c \in Callers \cup {"later"} : call.pc[c] = "done"
    /\ Len(Writers) = 2
    /\ Writers[2].caller = "B"
    /\ ret["A"].kind = "return"
    /\ ret["A"] # ret["B"]
    /\ ret["later"] = ret["B"]


---------------------------------------------------------------------------
(* One long-lived DataLoader against a fresh one for every call *)

\* what a DataLoader created for this one call returns or raises
FreshCall(op, name) ==
    CASE op = "load_historical" -> load_historical(NewLoader, files, name)
      [] op = "load_forecast" -> load_forecast(NewLoader, files, name)
      [] op = "load_drivers" -> load_drivers(NewLoader, files, name)
      [] OTHER -> load_drivers_parsed(NewLoader, files, name)

\* a result of one Loader and a result of another are both the same
\* exception, both None, or objects of equal value
SameOutcome(r, L, fresh) ==
    /\ r.kind = fresh.res.kind
    /\ r.kind = "raise" => r.exc = fresh.res.exc
    /\ r.kind = "return" =>
          IF r.val = None \/ fresh.res.val = None
          THEN r.val = None /\ fresh.res.val = None
          ELSE L.heap[r.val] = fresh.loader.heap[fresh.res.val]

\* C25: caching does not change results: in any sequence of load_historical,
\* load_forecast, load_drivers and load_drivers_parsed calls (valid and
\* invalid names, succeeding and failing) against unchanged files, the
\* long-lived Loader returns at each step a result value-equal to, and fails
\* in the same way as, a fresh Loader created for that single call.
C25_CachingKeepsResults ==
    [][SameOutcome(ret', loader', FreshCall(call'.op, call'.dataset_name))]_vars

\* a raw drivers dict served from the drivers cache while another dataset's
\* drivers file is missing
C25_Witness ==
    /\ call.op = "load_drivers"
    /\ ret.kind = "return"
    /\ io = <<>>
    /\ \E n \in KnownNames : ~files[DATASET_MAPPING[n]].drivers.exists
    /\ DOMAIN loader.cache # {}

---------------------------------------------------------------------------
(* load_drivers_parsed over driver files with malformed entries *)

\* entries of a drivers.json: a target that is not an object, two
\* well-formed drivers, and drivers with a null importance, no object at
\* all, a mean above the maximum, no direction, a lag that is a number, a
\* null mean, a direction that is a text
ParsedPool ==
    {DriverEntry("target_0", TRUE, JNull),
     DriverEntry("driver_1", FALSE, DriverInfo("Demand Index", 20, 1, 2)),
     DriverEntry("driver_2", FALSE, DriverInfo("Oil Price", 35, 0 - 1, 6)),
     DriverEntry("driver_3", FALSE,
         [DriverInfo("Null Importance", 10, 1, 3) EXCEPT !.importance = JNull]),
     DriverEntry("driver_4", FALSE, JNull),
     DriverEntry("driver_5", FALSE,
         [DriverInfo("Out Of Range", 50, 1, 3)
             EXCEPT !.importance.overall.max = JNum(40)]),
     DriverEntry("driver_6", FALSE,
         [driver_name |-> "No Direction",
          importance |-> [overall |-> [mean |-> JNum(10), max |-> JNum(11),
                                       min |-> JNum(9)]],
          overall_lag |-> <<[n |-> 3], [w |-> "month(s)"]>>]),
     DriverEntry("driver_7", FALSE,
         [DriverInfo("Numeric Lag", 10, 1, 3) EXCEPT !.overall_lag = <<JNum(6)>>]),
     DriverEntry("driver_8", FALSE,
         [DriverInfo("Null Mean", 10, 1, 3)
             EXCEPT !.importance.overall.mean = JNull]),
     DriverEntry("driver_9", FALSE,
         [DriverInfo("Text Direction", 10, 1, 3)
             EXCEPT !.direction.overall.mean = [j |-> "str"]])}

\* drivers.json files: up to MaxDrivers different entries in any order
ParsedFiles ==
    {DriversFile(es) :
        es \in {q \in UNION {[1..n -> ParsedPool] : n \in 0..MaxDrivers} :
                   \A i, j \in 1..Len(q) : i # j => q[i] # q[j]}}

InitParsed ==
    /\ \E f \in ParsedFiles :
          files = DiskWith("cotton_price", [GoodFolder EXCEPT !.drivers = f])
    /\ loader = NewLoader
    /\ call = [op |-> "init"]
    /\ ret = Return(None)
    /\ io = <<>>
    /\ qloader = NewLoader

NextParsed == QueryDriversParsed("cotton_price")

SpecParsed == InitParsed /\ [][NextParsed]_vars

\* an entry the drivers file holds in the expected form: an object whose
\* importance, direction and lag fields are present with the right types,
\* the importance mean within [min, max]
WellFormed(e) ==
    /\ ~IsScalar(e.info)
    /\ {"importance", "direction", "overall_lag"} \subseteq DOMAIN e.info
    /\ ~IsScalar(e.info.importance)
    /\ ~IsScalar(e.info.direction)
    /\ \A f \in {"mean", "max", "min"} : e.info.importance.overall[f].j = "num"
    /\ e.info.direction.overall.mean.j = "num"
    /\ \A i \in 1..Len(e.info.overall_lag) : ~IsScalar(e.info.overall_lag[i])
    /\ e.info.importance.overall.min.n <= e.info.importance.overall.mean.n
    /\ e.info.importance.overall.mean.n <= e.info.importance.overall.max.n

\* C26: load_drivers_parsed never fails because of one malformed driver
\* entry: every malformed entry is skipped and the well-formed entries
\* without a target_ id are all returned, sorted by importance_score
\* descending.
C26_MalformedEntriesSkipped ==
    call.op = "load_drivers_parsed" =>
        LET entries == EntriesOf(call.dataset_name)
            kept == {i \in 1..Len(entries) :
                        ~entries[i].target /\ WellFormed(entries[i])}
        IN /\ ret.kind = "return"
           /\ LET items == qloader.heap[ret.val].items IN
              /\ {items[k].driver_name : k \in 1..Len(items)}
                     = {entries[i].info.driver_name : i \in kept}
              /\ Len(items) = Cardinality(kept)
              /\ \A k \in 1..(Len(items) - 1) :
                     items[k].importance_score.n
                         >= items[k + 1].importance_score.n

---------------------------------------------------------------------------
(* Timing relationships between two datasets that share drivers *)

TimingIds == {"driver_1", "driver_2"}

TimingLags == {2, 6}

\* entries of a drivers.json: the lag as the text the loader parses
\* ("2 month(s)"), the same entry carrying the number under the key 'lag'
\* as well, and an entry with no lag at all
TimingPool ==
    {DriverEntry(id, FALSE, DriverInfo("Demand Index", 20, 1, lag)) :
        id \in TimingIds, lag \in TimingLags}
    \cup {DriverEntry(id, FALSE,
                      Put(DriverInfo("Demand Index", 20, 1, lag),
                          "lag", JNum(lag))) :
              id \in TimingIds, lag \in TimingLags}
    \cup {DriverEntry(id, FALSE, [driver_name |-> "Demand Index"]) :
              id \in TimingIds}

\* drivers.json files: up to MaxDrivers entries with different keys
TimingFiles ==
    {DriversFile(es) :
        es \in {q \in UNION {[1..n -> TimingPool] : n \in 0..MaxDrivers} :
                   \A i, j \in 1..Len(q) : i # j => q[i].id # q[j].id}}

InitTiming ==
    /\ \E f \in TimingFiles, g \in TimingFiles :
          files = [DiskWith("cotton_price", [GoodFolder EXCEPT !.drivers = f])
                      EXCEPT ![DATASET_MAPPING["cotton_export"]].drivers = g]
    /\ loader = NewLoader
    /\ call = [op |-> "init"]
    /\ ret = Return(None)
    /\ io = <<>>
    /\ qloader = NewLoader

AnalyzeTimingRelationships(dataset1_name, dataset2_name) ==
    Query([op |-> "analyze_timing_relationships",
           dataset1_name |-> dataset1_name, dataset2_name |-> dataset2_name],
          analyze_timing_relationships(files, dataset1_name, dataset2_name))

TimingNames == {"cotton_price", "cotton_export", "nonexistent_dataset"}

NextTiming ==
    \E a \in TimingNames, b \in TimingNames : AnalyzeTimingRelationships(a, b)

SpecTiming == InitTiming /\ [][NextTiming]_vars

\* the lag in months of a dataset's driver as the loader reads it from the
\* file: the first number of the overall_lag text, 0 without one
LagOf(name, driver) ==
    LET entries == EntriesOf(name)
        lag == ExtractDriver(entries[CHOOSE i \in 1..Len(entries) :
                                        entries[i].id = driver].info).lag_periods
    IN IF lag = None THEN 0 ELSE lag.n

\* the driver keys the two datasets of the call share
SharedDrivers ==
    {EntriesOf(call.dataset1_name)[i].id :
        i \in 1..Len(EntriesOf(call.dataset1_name))}
    \cap {EntriesOf(call.dataset2_name)[i].id :
              i \in 1..Len(EntriesOf(call.dataset2_name))}

RECURSIVE TotalLag(_, _)
TotalLag(name, drivers) ==
    IF drivers = {} THEN 0
    ELSE LET d == CHOOSE x \in drivers : TRUE
         IN LagOf(name, d) + TotalLag(name, drivers \ {d})

\* C27: when the one shared driver has lag 2 in the first dataset and lag 6
\* in the second, analyze_timing_relationships names the first dataset as
\* lead_commodity with average_lag_months 4 and predictive_value 'high';
\* the lead is the dataset whose average lag is lower by more than 0.5,
\* 'similar' otherwise, and the call with the arguments swapped names the
\* same lead.
C27_LowerLagLeads ==
    (/\ call.op = "analyze_timing_relationships"
     /\ call.dataset1_name \in KnownNames
     /\ call.dataset2_name \in KnownNames) =>
        LET n == Cardinality(SharedDrivers)
            sum1 == TotalLag(call.dataset1_name, SharedDrivers)
            sum2 == TotalLag(call.dataset2_name, SharedDrivers)
            swapped == analyze_timing_relationships(
                           files, call.dataset2_name, call.dataset1_name)
        IN /\ ret.kind = "return"
           /\ (n = 1 /\ sum1 = 2 /\ sum2 = 6) =>
                 /\ ret.val.lead_commodity = call.dataset1_name
                 /\ ret.val.average_lag_months = 40
                 /\ ret.val.predictive_value = "high"
           /\ ret.val.lead_commodity =
                 (IF n > 0 /\ 2 * sum1 < 2 * sum2 - n THEN call.dataset1_name
                  ELSE IF n > 0 /\ 2 * sum2 < 2 * sum1 - n
                  THEN call.dataset2_name
                  ELSE "similar")
           /\ swapped.res.val.lead_commodity = ret.val.lead_commodity

---------------------------------------------------------------------------
(* Multi-commodity insights over histories that move together or apart *)

\* histories of three months that end at RecommendCurrent: rising, falling
\* then rising, flat, and down and up again
InsightTables ==
    {<<Row(1, 98000), Row(2, 99000), Row(3, 100000)>>,
     <<Row(1, 102000), Row(2, 99000), Row(3, 100000)>>,
     <<Row(1, 100000), Row(2, 100000), Row(3, 100000)>>,
     <<Row(1, 100000), Row(2, 98000), Row(3, 100000)>>}

\* forecast medians: buy_now, wait, monitor
InsightMedians == {103000, 97000, 100000}

InsightLists ==
    {<<"cotton_price">>, <<"cotton_price", "cotton_export">>,
     <<"cotton_export", "cotton_price">>,
     <<"cotton_price", "cotton_export", "cotton_price">>}

InitInsights ==
    /\ \E h \in [ScenarioVaried -> InsightTables],
          m \in [ScenarioVaried -> InsightMedians] :
          files = [f \in Folders |->
                      LET name == CHOOSE n \in KnownNames : DATASET_MAPPING[n] = f
                      IN IF name \in ScenarioVaried
                         THEN [GoodFolder EXCEPT
                                  !.historical = CsvFile(<<"Period", "Value">>,
                                                         h[name]),
                                  !.forecast = RecommendForecast(m[name] - 3000,
                                                                 m[name])]
                         ELSE GoodFolder]
    /\ loader = NewLoader
    /\ call = [op |-> "init"]
    /\ ret = Return(None)
    /\ io = <<>>
    /\ qloader = NewLoader

NextInsights ==
    \E names \in InsightLists : AnalyzeMultiCommodityScenario(names, 1, 1000)

SpecInsights == InitInsights /\ [][NextInsights]_vars

\* a value of a history in thousands above RecommendCurrent: Pearson's r is
\* unchanged by a shift and a scaling of the values
Deviation(row) == (row.Value - RecommendCurrent) \div 1000

RECURSIVE SumProducts(_, _)
\* the sum over the rows of the product of two histories' deviations
SumProducts(xs, ys) ==
    IF xs = <<>> \/ ys = <<>> THEN 0
    ELSE Deviation(Head(xs)) * Deviation(Head(ys))
             + SumProducts(Tail(xs), Tail(ys))

\* Pearson's |r| > 0.5 between the histories of two datasets, whose rows
\* hold the same dates in the same order
StronglyCorrelated(a, b) ==
    LET xs == files[DATASET_MAPPING[a]].historical.rows
        ys == files[DATASET_MAPPING[b]].historical.rows
        ones == [i \in 1..Len(xs) |-> Row(i, RecommendCurrent + 1000)]
        n == Len(xs)
        sxy == n * SumProducts(xs, ys) - SumProducts(xs, ones) * SumProducts(ys, ones)
        sxx == n * SumProducts(xs, xs) - SumProducts(xs, ones) * SumProducts(xs, ones)
        syy == n * SumProducts(ys, ys) - SumProducts(ys, ones) * SumProducts(ys, ones)
    IN sxx > 0 /\ syy > 0 /\ 4 * sxy * sxy > sxx * syy

\* C29: when analyze_multi_commodity_scenario is given at least two
\* datasets whose historical values have correlation |r| > 0.5 the insights
\* contain a correlation insight, and when the recommendations include both
\* buy_now and wait they contain the mixed-signal insight.
C29_InsightsReported ==
    (call.op = "analyze_multi_commodity_scenario" /\ ret.kind = "return") =>
        LET recs == ret.val.individual_recommendations
            insights == {ret.val.insights[i] : i \in 1..Len(ret.val.insights)}
        IN /\ (\E a, b \in Range(call.dataset_names) :
                   a # b /\ StronglyCorrelated(a, b))
                 => "Correlation" \in insights
           /\ (/\ \E d \in DOMAIN recs : recs[d].recommendation = "buy_now"
               /\ \E d \in DOMAIN recs : recs[d].recommendation = "wait")
                 => "Mixed signals" \in insights

---------------------------------------------------------------------------
(* Supplier claims against forecasts with every set of bands *)

\* the bands of a forecast's one date: the 0.1/0.9 pair, the 0.05/0.95
\* pair, the 0.15/0.85 pair, two pairs with the 0.1 band at 0, the 0.1/0.9
\* pair with the 0.1 band at 0, and the median alone
ClaimBands ==
    {("0.1" :> 97000 @@ "0.5" :> 100000 @@ "0.9" :> 103000),
     ("0.05" :> 95000 @@ "0.5" :> 100000 @@ "0.95" :> 105000),
     ("0.15" :> 98000 @@ "0.5" :> 100000 @@ "0.85" :> 102000),
     ("0.1" :> 0 @@ "0.05" :> 95000 @@ "0.5" :> 100000 @@ "0.9" :> 103000
         @@ "0.95" :> 105000),
     ("0.1" :> 0 @@ "0.5" :> 100000 @@ "0.9" :> 103000),
     ("0.5" :> 100000)}

ClaimedPrices ==
    {0, 94000, 96000, 97500, 98000, 100000, 102000, 102001, 102500, 103000,
     104000, 106000}

InitClaim ==
    /\ \E qf \in ClaimBands :
          files = DiskWith("cotton_price",
                      [GoodFolder EXCEPT
                           !.historical = CsvFile(<<"Period", "Value">>,
                                              <<Row(2, RecommendCurrent)>>),
                           !.forecast = ForecastFile(TRUE,
                                            [d \in {5} |-> Entry(qf)])])
    /\ loader = NewLoader
    /\ call = [op |-> "init"]
    /\ ret = Return(None)
    /\ io = <<>>
    /\ qloader = NewLoader

ValidateSupplierClaim(name, claimed_price, months_ahead) ==
    Query([op |-> "validate_supplier_claim", dataset_name |-> name,
           claimed_price |-> claimed_price, months_ahead |-> months_ahead],
          validate_supplier_claim(files, name, claimed_price, months_ahead))

NextClaim ==
    \E claimed_price \in ClaimedPrices, m \in RecommendMonths :
        ValidateSupplierClaim("cotton_price", claimed_price, m)

SpecClaim == InitClaim /\ [][NextClaim]_vars

\* the bands the forecast file holds for the date the call asks about
BandsOfClaim ==
    files[DATASET_MAPPING[call.dataset_name]].forecast.series[5].qf

\* the quantile pairs in the order they are tried
QuantilePairs == <<<<"0.1", "0.9">>, <<"0.05", "0.95">>, <<"0.15", "0.85">>>>

\* the pairs the forecast has both ends of
PairsPresent ==
    {i \in 1..Len(QuantilePairs) :
        {QuantilePairs[i][1], QuantilePairs[i][2]} \subseteq DOMAIN BandsOfClaim}

\* C30: validate_supplier_claim takes low and high from the first quantile
\* pair the forecast has among (0.1, 0.9), (0.05, 0.95), (0.15, 0.85), both
\* ends from the same pair, also when a band's value is 0; it returns
\* exactly one classification by the stated rule; a forecast with none of
\* the pairs gives a structured error, not an exception.
C30_ClaimAgainstOnePair ==
    (call.op = "validate_supplier_claim" /\ call.months_ahead = 1) =>
        /\ ret.kind = "return"
        /\ IF PairsPresent = {}
           THEN "success" \in DOMAIN ret.val /\ ret.val.success = FALSE
           ELSE LET pair == QuantilePairs[SetMin(PairsPresent)]
                    low == BandsOfClaim[pair[1]]
                    high == BandsOfClaim[pair[2]]
                    median == BandsOfClaim["0.5"]
                    claimed == call.claimed_price
                IN /\ ret.val.forecast_range = [low |-> low, high |-> high]
                   /\ ret.val.classification =
                          (IF claimed > high THEN "above_forecast_range"
                           ELSE IF claimed < low THEN "below_forecast_range"
                           ELSE IF 100 * claimed > 102 * median
                           THEN "above_forecast"
                           ELSE IF 100 * claimed < 98 * median
                           THEN "below_forecast"
                           ELSE "aligned_with_forecast")

=============================================================================
